---- MODULE Spec2Model ----
(***************************************************************************)
(* Model of the VNG data analyzer core: the text parser (modules/parser),  *)
(* the cross-file analyzer (modules/analyzer), the statistics helpers      *)
(* (utils/statistics) and the analysis / parsing services around them.     *)
(*                                                                         *)
(* JavaScript strings are TLA+ strings (TLC evaluates Len, SubSeq and \o   *)
(* on them).  A JavaScript number is an integer counting 1/Scale units, so *)
(* that 0.85 is 85; quotients are exact fractions <<n, d>>.  null is the   *)
(* empty tuple.                                                            *)
(***************************************************************************)
EXTENDS Integers, Sequences, FiniteSets, TLC

(***************************************************************************)
(* Bounds of the model.                                                    *)
(***************************************************************************)
MaxLines == 3      \* lines of one text handed to parseVngText
MaxFiles == 3      \* files handed to runAnalysis / analyzeFiles
MaxValues == 3     \* entries of an array handed to a statistics helper

(***************************************************************************)
(* String primitives of the JavaScript runtime.                            *)
(***************************************************************************)
Ch(s, i) == SubSeq(s, i, i)

Whitespace == {" ", "\t", "\r"}

DigitChars == {"0", "1", "2", "3", "4", "5", "6", "7", "8", "9"}

Letters ==
    {"a", "b", "c", "d", "e", "f", "g", "h", "i", "j", "k", "l", "m",
     "n", "o", "p", "q", "r", "s", "t", "u", "v", "w", "x", "y", "z",
     "A", "B", "C", "D", "E", "F", "G", "H", "I", "J", "K", "L", "M",
     "N", "O", "P", "Q", "R", "S", "T", "U", "V", "W", "X", "Y", "Z"}

\* String.prototype.slice(from) with 1-based from: the suffix from position from.
SliceFrom(s, from) == SubSeq(s, from, Len(s))

\* String.prototype.slice(0, -n)
DropLast(s, n) == SubSeq(s, 1, Len(s) - n)

RECURSIVE TrimStart(_)
TrimStart(s) ==
    IF Len(s) > 0 /\ Ch(s, 1) \in Whitespace THEN TrimStart(SliceFrom(s, 2)) ELSE s

RECURSIVE TrimEnd(_)
TrimEnd(s) ==
    IF Len(s) > 0 /\ Ch(s, Len(s)) \in Whitespace THEN TrimEnd(DropLast(s, 1)) ELSE s

\* String.prototype.trim
Trim(s) == TrimEnd(TrimStart(s))

\* String.prototype.endsWith
EndsWith(s, suffix) ==
    /\ Len(suffix) <= Len(s)
    /\ SubSeq(s, Len(s) - Len(suffix) + 1, Len(s)) = suffix

\* String.prototype.startsWith at 1-based position i
StartsWithAt(s, i, prefix) ==
    /\ i + Len(prefix) - 1 <= Len(s)
    /\ SubSeq(s, i, i + Len(prefix) - 1) = prefix

\* String.prototype.includes
Includes(s, sub) == \E i \in 1..(Len(s) + 1) : StartsWithAt(s, i, sub)

\* String.prototype.indexOf, 1-based; 0 when sub does not occur (JavaScript's -1).
IndexOf(s, sub) ==
    IF Includes(s, sub)
    THEN CHOOSE i \in 1..(Len(s) + 1) :
            /\ StartsWithAt(s, i, sub)
            /\ \A j \in 1..(i - 1) : ~StartsWithAt(s, j, sub)
    ELSE 0

\* Length of the longest run of characters of class cls starting at position i.
RECURSIVE RunLen(_, _, _)
RunLen(s, i, cls) ==
    IF i <= Len(s) /\ Ch(s, i) \in cls THEN 1 + RunLen(s, i + 1, cls) ELSE 0

(***************************************************************************)
(* Numbers.  parseFloat on a token of digits, dots and minus signs.        *)
(***************************************************************************)
Scale == 100

DigitVal(c) ==
    CASE c = "0" -> 0 [] c = "1" -> 1 [] c = "2" -> 2 [] c = "3" -> 3
      [] c = "4" -> 4 [] c = "5" -> 5 [] c = "6" -> 6 [] c = "7" -> 7
      [] c = "8" -> 8 [] c = "9" -> 9

\* The decimal value of a string of digits ("" is 0).
RECURSIVE StrToNat(_)
StrToNat(s) ==
    IF Len(s) = 0 THEN 0
    ELSE 10 * StrToNat(DropLast(s, 1)) + DigitVal(Ch(s, Len(s)))

\* The sign, integer digits and fraction digits that parseFloat reads off the
\* front of tok: [-] digits* [. digits*]; what follows is ignored.
FloatParts(tok) ==
    LET neg  == Len(tok) > 0 /\ Ch(tok, 1) = "-"
        body == IF neg THEN SliceFrom(tok, 2) ELSE tok
        ip   == RunLen(body, 1, DigitChars)
        dot  == ip + 1 <= Len(body) /\ Ch(body, ip + 1) = "."
        fp   == IF dot THEN RunLen(body, ip + 2, DigitChars) ELSE 0
    IN  [neg  |-> neg,
         int  |-> SubSeq(body, 1, ip),
         frac |-> IF dot THEN SubSeq(body, ip + 2, ip + 1 + fp) ELSE ""]

\* isNaN(parseFloat(tok)): no digit was read.
ParseFloatIsNaN(tok) ==
    LET p == FloatParts(tok) IN Len(p.int) = 0 /\ Len(p.frac) = 0

\* parseFloat(tok) in 1/Scale units (two decimals are kept).
ParseFloat(tok) ==
    LET p    == FloatParts(tok)
        f2   == SubSeq(p.frac \o "00", 1, 2)
        mag  == Scale * StrToNat(p.int) + StrToNat(f2)
    IN  IF p.neg THEN 0 - mag ELSE mag

(***************************************************************************)
(* valueRegex = /: ([\d.-]+)[\s%a-zA-Z]*?(\| FLAG)?$/                      *)
(***************************************************************************)
NumChars == DigitChars \cup {".", "-"}

NoiseChars == Whitespace \cup {"%"} \cup Letters

FlagMarker == "| FLAG"

\* What is left of s after the numeric token that starts at position i + 2
\* and the unit noise behind it.
RegexRest(s, i) ==
    LET r == RunLen(s, i + 2, NumChars)
        n == RunLen(s, i + 2 + r, NoiseChars)
    IN  SliceFrom(s, i + 2 + r + n)

\* The pattern matches with its ": " at position i.
RegexMatchAt(s, i) ==
    /\ StartsWithAt(s, i, ": ")
    /\ RunLen(s, i + 2, NumChars) >= 1
    /\ RegexRest(s, i) \in {"", FlagMarker}

\* valueRegex.test(s)
RegexTest(s) == \E i \in 1..Len(s) : RegexMatchAt(s, i)

\* valueRegex.exec(s): the leftmost match; group 1 is num, flag says whether
\* group 2 took part in the match.
RegexExec(s) ==
    LET i == CHOOSE k \in 1..Len(s) :
                /\ RegexMatchAt(s, k)
                /\ \A j \in 1..(k - 1) : ~RegexMatchAt(s, j)
    IN  [num  |-> SubSeq(s, i + 2, i + 1 + RunLen(s, i + 2, NumChars)),
         flag |-> RegexRest(s, i) = FlagMarker]

(***************************************************************************)
(* Metric name of a value line: the text before the first colon, trimmed,  *)
(* then .replace(/\s*\([^)]+\)$/, '').trim()                               *)
(***************************************************************************)
RECURSIVE RunLenNot(_, _, _)
RunLenNot(s, i, c) ==
    IF i <= Len(s) /\ Ch(s, i) # c THEN 1 + RunLenNot(s, i + 1, c) ELSE 0

\* /\s*\([^)]+\)$/ matches s from position i on.
ParenMatchAt(s, i) ==
    LET w == RunLen(s, i, Whitespace)
        q == RunLenNot(s, i + w + 1, ")")
    IN  /\ i + w <= Len(s)
        /\ Ch(s, i + w) = "("
        /\ q >= 1
        /\ i + w + 1 + q = Len(s)
        /\ Ch(s, Len(s)) = ")"

StripParenSuffix(s) ==
    IF \E i \in 1..Len(s) : ParenMatchAt(s, i)
    THEN LET i == CHOOSE k \in 1..Len(s) :
                    /\ ParenMatchAt(s, k)
                    /\ \A j \in 1..(k - 1) : ~ParenMatchAt(s, j)
         IN  SubSeq(s, 1, i - 1)
    ELSE s

\* MetricNameOf without the replace of line 57.
MetricNameOfKeepingSuffix(trimmedLine) ==
    LET colonIndex == IndexOf(trimmedLine, ":")
    IN  Trim(SubSeq(trimmedLine, 1, colonIndex - 1))

MetricNameOf(trimmedLine) ==
    LET colonIndex == IndexOf(trimmedLine, ":")
    IN  Trim(StripParenSuffix(Trim(SubSeq(trimmedLine, 1, colonIndex - 1))))

(***************************************************************************)
(* Objects.  A plain object is a function from its own property names to   *)
(* their values; {} is the empty function.                                 *)
(***************************************************************************)
EmptyMap == << >>

MapPut(m, k, v) == [x \in (DOMAIN m) \cup {k} |-> IF x = k THEN v ELSE m[x]]

\* null
Null == << >>

\* undefined and NaN; a number is an integer, every other value a tuple.
Undefined == <<"undefined">>

NaN == <<"NaN">>

\* v === null || v === undefined
IsNullish(v) == ToString(v) \in {ToString(Null), ToString(Undefined)}

\* typeof v === 'number' && isNaN(v)
IsNaNValue(v) == ToString(v) = ToString(NaN)

\* v !== null && v !== undefined && !isNaN(v)
IsNumeric(v) == ~IsNullish(v) /\ ~IsNaNValue(v)

\* Properties every plain object inherits from Object.prototype: the
\* __proto__ accessor and the built-in methods (function objects).
BuiltinMethodNames ==
    {"constructor", "toString", "toLocaleString", "valueOf",
     "hasOwnProperty", "isPrototypeOf", "propertyIsEnumerable"}

ProtoAccessor == "__proto__"

\* Own properties of a function object that an assignment cannot change
\* (the assignment is silently dropped in non-strict code).
ReadOnlyProps(fn) ==
    {"name", "length"} \cup (IF fn = "constructor" THEN {"prototype"} ELSE {})

(***************************************************************************)
(* State.                                                                  *)
(***************************************************************************)
VARIABLES
    pc,               \* where parseVngText is: "idle", "loop", "returned", "threw"
    consumed,         \* lines of the text taken by the loop so far
    line,             \* the line of the latest loop iteration
    text,             \* parseVngText: the lines of text the loop has taken
    currentCategory,  \* parseVngText: let currentCategory
    dataMap,          \* parseVngText: const dataMap (own properties)
    shared,           \* properties written to objects that outlive the call:
                      \*   <<m>> on Object.prototype, <<c, m>> on the object
                      \*   that Object.prototype holds under c
    parsedFiles,      \* app.js: let parsedFiles (ParsedFile models, in order)
    call,             \* the latest analyzer call: the function called (fn)
                      \* and its argument (isArray, items)
    results,          \* runAnalysis: the value the latest call returned
    outcome,          \* AnalysisService.analyzeFiles: how the latest call ended
    uploadedFiles,    \* app.js: let uploadedFiles (the File objects selected)
    analysisResults,  \* app.js: let analysisResults
    analyzeDisabled,  \* the disabled property of the analyze button
    loading,          \* the loading overlay is shown
    resultsShown,     \* the results section is shown
    messages,         \* the messages shown to the user, in order
    invocations,      \* the handleAnalysis invocations of this page
    session,          \* sessionStorage: vng_fileDataList, vng_analysisResults
    startup           \* how initializeApp of this page ended

appVars == <<uploadedFiles, analysisResults, analyzeDisabled, loading,
             resultsShown, messages, invocations, session, startup>>

vars == <<pc, consumed, line, text, currentCategory, dataMap, shared,
          parsedFiles, call, results, outcome, appVars>>

parserVars == <<pc, consumed, line, text, currentCategory, dataMap, shared>>

analyzerVars == <<call, results, outcome>>

(***************************************************************************)
(* parseVngText, one loop iteration per line.                              *)
(***************************************************************************)
DefaultCategory == "General"

SummaryHeader == "Summary of Flagged Findings"

\* LineKind without the test of line 72: every header starts a category.
LineKindSummaryAsHeader(trimmedLine) ==
    IF trimmedLine = "" THEN "blank"
    ELSE IF RegexTest(trimmedLine)
    THEN IF ParseFloatIsNaN(RegexExec(trimmedLine).num) THEN "nan"
         ELSE IF IndexOf(trimmedLine, ":") = 0 THEN "other"
         ELSE "value"
    ELSE IF EndsWith(trimmedLine, ":") /\ ~RegexTest(trimmedLine)
    THEN "header"
    ELSE "other"

\* LineKind with the header test first and on a ':' anywhere in the line.
LineKindColonFirst(trimmedLine) ==
    IF trimmedLine = "" THEN "blank"
    ELSE IF Includes(trimmedLine, ":")
    THEN IF ~Includes(trimmedLine, SummaryHeader) THEN "header" ELSE "summary"
    ELSE "other"

\* How the loop body treats a trimmed line:
\*   "blank"   empty after trimming (continue)
\*   "value"   matches valueRegex and its number parses
\*   "nan"     matches valueRegex, the number does not parse (continue)
\*   "header"  ends with ':' and starts a category
\*   "summary" ends with ':' but names the findings summary
\*   "other"   none of these
LineKind(trimmedLine) ==
    IF trimmedLine = "" THEN "blank"
    ELSE IF RegexTest(trimmedLine)
    THEN IF ParseFloatIsNaN(RegexExec(trimmedLine).num) THEN "nan"
         ELSE IF IndexOf(trimmedLine, ":") = 0 THEN "other"
         ELSE "value"
    ELSE IF EndsWith(trimmedLine, ":") /\ ~RegexTest(trimmedLine)
    THEN IF ~Includes(trimmedLine, SummaryHeader) THEN "header" ELSE "summary"
    ELSE "other"

\* HeaderCategory without the handling of the " //" suffix.
HeaderCategoryKeepingSuffix(trimmedLine) == Trim(DropLast(trimmedLine, 1))

\* The category a header line names.
HeaderCategory(trimmedLine) ==
    LET c == Trim(DropLast(trimmedLine, 1))
    IN  IF EndsWith(c, " //") THEN Trim(DropLast(c, 3)) ELSE c

\* ReadingOf with the flag taken from the marker anywhere in the line.
ReadingOfFlagAnywhere(trimmedLine) ==
    LET match == RegexExec(trimmedLine)
    IN  [value |-> ParseFloat(match.num), isFlagged |-> Includes(trimmedLine, FlagMarker)]

\* The reading of a value line.
ReadingOf(trimmedLine) ==
    LET match == RegexExec(trimmedLine)
    IN  [value |-> ParseFloat(match.num), isFlagged |-> match.flag]

\* `name in obj` for a plain object with own properties own.
HasProperty(own, sh, name) ==
    \/ name \in DOMAIN own
    \/ name = ProtoAccessor
    \/ name \in BuiltinMethodNames
    \/ <<name>> \in DOMAIN sh

\* The object that dataMap[category] evaluates to, once the category is "in"
\* dataMap: "own" (an own inner map), "prototype" (Object.prototype itself),
\* "inherited" (an object held by Object.prototype).
CategoryTarget(own, category) ==
    IF category \in DOMAIN own THEN "own"
    ELSE IF category = ProtoAccessor THEN "prototype"
    ELSE "inherited"

\* StoreOwn keeping the reading a pair already has.
StoreOwnKeepingFirst(own, sh, category, metricName, reading) ==
    LET ensured == IF HasProperty(own, sh, category) THEN own
                   ELSE MapPut(own, category, EmptyMap)
    IN  IF /\ CategoryTarget(ensured, category) = "own"
           /\ metricName # ProtoAccessor
           /\ metricName \notin DOMAIN ensured[category]
        THEN MapPut(ensured, category, MapPut(ensured[category], metricName, reading))
        ELSE ensured

\* dataMap after lines 60-68 for a value line.
StoreOwn(own, sh, category, metricName, reading) ==
    LET ensured == IF HasProperty(own, sh, category) THEN own
                   ELSE MapPut(own, category, EmptyMap)
    IN  IF CategoryTarget(ensured, category) = "own" /\ metricName # ProtoAccessor
        THEN MapPut(ensured, category, MapPut(ensured[category], metricName, reading))
        ELSE ensured

\* Objects outside dataMap after lines 60-68 for a value line.
StoreShared(own, sh, category, metricName, reading) ==
    LET target == CategoryTarget(own, category)
    IN  IF ~HasProperty(own, sh, category) \/ target = "own"
             \/ metricName = ProtoAccessor
        THEN sh
        ELSE IF target = "prototype" THEN MapPut(sh, <<metricName>>, reading)
        ELSE IF category \in BuiltinMethodNames /\ <<category>> \notin DOMAIN sh
                /\ metricName \in ReadOnlyProps(category)
        THEN sh
        ELSE MapPut(sh, <<category, metricName>>, reading)

\* The assignment of line 65 throws: Object.prototype refuses a new prototype.
StoreThrows(own, category, metricName) ==
    /\ CategoryTarget(own, category) = "prototype"
    /\ category \notin DOMAIN own
    /\ metricName = ProtoAccessor

\* Lines a text is made of.  They cover value lines (plain, flagged, with a
\* unit, with a parenthesized suffix, with two colons, with a number that
\* does not parse), headers (plain, padded, with the " //" suffix, with "::"
\* in the name, named like an inherited property, named like a metric), the
\* findings-summary header alone and inside a longer header, and lines that
\* are neither.
ParseLines ==
    {"Gain: 0.85", "Gain: 1.5 | FLAG", "Latency (ms): 123.4 | FLAG",
     "VISUOMOTOR //:", "Saccades:", "  Gaze :  ", "a // //:", "A::B:",
     "Gain:", "__proto__:", "__proto__: 1", "Summary of Flagged Findings:",
     "T: 1: 2", "A: 1:", "G: -", "G: 5 ms", "", "note",
     "Old Summary of Flagged Findings:", "P (a) (b): 1", "N | FLAG: 5",
     "V: 1.2.3"}

\* parseVngText(text) is called with a non-empty string.
ParseCall ==
    /\ pc = "idle"
    /\ pc' = "loop"
    /\ consumed' = 0
    /\ line' = ""
    /\ text' = << >>
    /\ currentCategory' = DefaultCategory
    /\ dataMap' = EmptyMap
    /\ UNCHANGED <<shared, parsedFiles, analyzerVars>>
    /\ UNCHANGED appVars

\* parseVngText(text) is called with no text: a non-string, or "".
ParseCallNoText ==
    /\ pc = "idle"
    /\ pc' = "returned"
    /\ consumed' = 0
    /\ line' = ""
    /\ text' = << >>
    /\ currentCategory' = DefaultCategory
    /\ dataMap' = EmptyMap
    /\ UNCHANGED <<shared, parsedFiles, analyzerVars>>
    /\ UNCHANGED appVars

\* One iteration of `for (const line of lines)` on the line l.
ParseLine(l) ==
    /\ pc = "loop"
    /\ consumed < MaxLines
    /\ consumed' = consumed + 1
    /\ line' = l
    /\ text' = Append(text, l)
    /\ LET trimmedLine == Trim(l)
           kind        == LineKind(trimmedLine)
       IN  CASE kind = "value" ->
                  LET metricName == MetricNameOf(trimmedLine)
                      reading    == ReadingOf(trimmedLine)
                  IN  IF StoreThrows(dataMap, currentCategory, metricName)
                      THEN /\ pc' = "threw"
                           /\ UNCHANGED <<currentCategory, dataMap, shared>>
                      ELSE /\ pc' = "loop"
                           /\ dataMap' = StoreOwn(dataMap, shared, currentCategory,
                                                  metricName, reading)
                           /\ shared' = StoreShared(dataMap, shared, currentCategory,
                                                    metricName, reading)
                           /\ UNCHANGED currentCategory
             [] kind = "header" ->
                  /\ currentCategory' = HeaderCategory(trimmedLine)
                  /\ UNCHANGED <<pc, dataMap, shared>>
             [] OTHER ->
                  UNCHANGED <<pc, currentCategory, dataMap, shared>>
    /\ UNCHANGED <<parsedFiles, analyzerVars>>
    /\ UNCHANGED appVars

\* The loop body as a function: the locals of parseVngText and the objects
\* outside it after one more line l.
LineStep(st, l) ==
    LET trimmedLine == Trim(l)
        kind        == LineKind(trimmedLine)
    IN  IF st.pc # "loop" THEN st
        ELSE IF kind = "value"
        THEN LET metricName == MetricNameOf(trimmedLine)
                 reading    == ReadingOf(trimmedLine)
             IN  IF StoreThrows(st.dataMap, st.currentCategory, metricName)
                 THEN [st EXCEPT !.pc = "threw"]
                 ELSE [st EXCEPT
                         !.dataMap = StoreOwn(st.dataMap, st.shared, st.currentCategory,
                                              metricName, reading),
                         !.shared = StoreShared(st.dataMap, st.shared, st.currentCategory,
                                                metricName, reading)]
        ELSE IF kind = "header"
        THEN [st EXCEPT !.currentCategory = HeaderCategory(trimmedLine)]
        ELSE st

\* parseVngText on the lines, started with the objects outside it as sh.
RECURSIVE ParseText(_, _)
ParseText(lines, sh) ==
    IF lines = << >>
    THEN [pc |-> "loop", currentCategory |-> DefaultCategory,
          dataMap |-> EmptyMap, shared |-> sh]
    ELSE CHOOSE after \in {LineStep(st, lines[Len(lines)]) :
                               st \in {ParseText(SubSeq(lines, 1, Len(lines) - 1), sh)}} : TRUE

\* parseVngText is called once more, after an earlier call has ended.
ParseCallAgain ==
    /\ pc \in {"returned", "threw"}
    /\ pc' = "loop"
    /\ consumed' = 0
    /\ line' = ""
    /\ text' = << >>
    /\ currentCategory' = DefaultCategory
    /\ dataMap' = EmptyMap
    /\ UNCHANGED <<shared, parsedFiles, analyzerVars>>
    /\ UNCHANGED appVars

\* Lines of the texts of calls that follow one another: a header named like
\* the prototype accessor, a header and a value line of the same name, and
\* another value line.
ReentryLines == {"__proto__:", "X:", "X: 1", "Gain: 0.85"}

\* The loop is over: return dataMap.
ParseReturn ==
    /\ pc = "loop"
    /\ pc' = "returned"
    /\ UNCHANGED <<consumed, line, text, currentCategory, dataMap, shared,
                   parsedFiles, analyzerVars>>
    /\ UNCHANGED appVars

(***************************************************************************)
(* Arithmetic on exact fractions <<n, d>> with d > 0, in lowest terms.     *)
(***************************************************************************)
Abs(n) == IF n < 0 THEN 0 - n ELSE n

RECURSIVE Gcd(_, _)
Gcd(a, b) == IF b = 0 THEN a ELSE Gcd(b, a % b)

Frac(n, d) ==
    LET g == Gcd(Abs(n), Abs(d))
        sgn == IF d < 0 THEN 0 - 1 ELSE 1
    IN  <<(sgn * n) \div g, (sgn * d) \div g>>

\* The largest k with k * k <= n, searched between lo and hi.
RECURSIVE IntSqrt(_, _, _)
IntSqrt(n, lo, hi) ==
    IF lo >= hi THEN lo
    ELSE LET mid == (lo + hi + 1) \div 2
         IN  IF mid * mid <= n THEN IntSqrt(n, mid, hi) ELSE IntSqrt(n, lo, mid - 1)

\* Math.sqrt of a non-negative fraction: the fraction itself when both terms
\* are squares, else the irrational root written <<"sqrt", n, d>>.
MathSqrt(q) ==
    LET rn == IntSqrt(q[1], 0, q[1])
        rd == IntSqrt(q[2], 0, q[2])
    IN  IF rn * rn = q[1] /\ rd * rd = q[2] THEN <<rn, rd>>
        ELSE <<"sqrt", q[1], q[2]>>

RECURSIVE SeqSum(_)
SeqSum(xs) == IF xs = << >> THEN 0 ELSE Head(xs) + SeqSum(Tail(xs))

(***************************************************************************)
(* utils/statistics                                                        *)
(***************************************************************************)
\* calculateStdDev with the variance of the whole population (divided by n).
calculateStdDevPopulation(values) ==
    LET validValues == SelectSeq(values, IsNumeric)
    IN  IF Len(values) < 2 \/ Len(validValues) < 2 THEN <<0, 1>>
        ELSE LET n   == Len(validValues)
                 sum == SeqSum(validValues)
                 sq  == SeqSum([i \in 1..n |-> (n * validValues[i] - sum)
                                                * (n * validValues[i] - sum)])
             IN  MathSqrt(Frac(sq, n * n * n * Scale * Scale))

\* calculateStdDev(values) for an array of numbers, null, undefined and NaN.
calculateStdDev(values) ==
    LET validValues == SelectSeq(values, IsNumeric)
    IN  IF Len(values) < 2 \/ Len(validValues) < 2 THEN <<0, 1>>
        ELSE LET n   == Len(validValues)
                 sum == SeqSum(validValues)
                 \* sum of (n * v - sum)^2 = n^2 * the sum of squared deviations
                 sq  == SeqSum([i \in 1..n |-> (n * validValues[i] - sum)
                                                * (n * validValues[i] - sum)])
             IN  MathSqrt(Frac(sq, n * n * (n - 1) * Scale * Scale))

\* calculatePercentChange taking every change from a zero baseline as
\* undefined.
calculatePercentChangeZeroIsNull(baseline, newValue) ==
    IF IsNullish(baseline) \/ IsNullish(newValue) THEN Null
    ELSE IF IsNaNValue(baseline) THEN NaN
    ELSE IF baseline = 0 THEN Null
    ELSE IF IsNaNValue(newValue) THEN NaN
    ELSE Frac((newValue - baseline) * 100, baseline)

\* calculatePercentChange(baseline, newValue) for numbers, null, undefined
\* and NaN.
calculatePercentChange(baseline, newValue) ==
    IF IsNullish(baseline) \/ IsNullish(newValue) THEN Null
    ELSE IF IsNaNValue(baseline) THEN NaN
    ELSE IF baseline = 0
    THEN IF ~IsNaNValue(newValue) /\ newValue = 0 THEN <<0, 1>> ELSE Null
    ELSE IF IsNaNValue(newValue) THEN NaN
    ELSE Frac((newValue - baseline) * 100, baseline)

\* ValidPoints with the valid entries numbered 0, 1, 2, ... anew.
ValidPointsRenumbered(yValues) ==
    LET ys == SelectSeq(yValues, IsNumeric)
    IN  [k \in 1..Len(ys) |-> <<k - 1, ys[k]>>]

\* The [x, y] pairs of lines 68-74: the 0-based index and the entry of every
\* numeric entry of yValues.
ValidPoints(yValues) ==
    LET idx == SelectSeq([i \in 1..Len(yValues) |-> i],
                         LAMBDA i : IsNumeric(yValues[i]))
    IN  [k \in 1..Len(idx) |-> <<idx[k] - 1, yValues[idx[k]]>>]

\* calculateLinearRegression(yValues); argument is what the caller passes:
\* isArray tells an array from anything else, items are its entries.
calculateLinearRegression(argument) ==
    IF ~argument.isArray \/ Len(argument.items) < 2 THEN << >>
    ELSE LET n           == Len(argument.items)
             validPoints == ValidPoints(argument.items)
             vn          == Len(validPoints)
             sumX  == SeqSum([k \in 1..vn |-> validPoints[k][1]])
             sumY  == SeqSum([k \in 1..vn |-> validPoints[k][2]])
             sumXY == SeqSum([k \in 1..vn |-> validPoints[k][1] * validPoints[k][2]])
             sumXX == SeqSum([k \in 1..vn |-> validPoints[k][1] * validPoints[k][1]])
             denominator == vn * sumXX - sumX * sumX
             \* slope = top / denominator
             top == vn * sumXY - sumX * sumY
         IN  IF vn < 2 THEN [i \in 1..n |-> Null]
             ELSE IF denominator = 0
             THEN [i \in 1..n |-> Frac(sumY, vn)]
             \* slope * x + (sumY - slope * sumX) / vn
             ELSE [i \in 1..n |->
                     Frac(top * (i - 1) * vn + sumY * denominator - top * sumX,
                          denominator * vn)]

\* calculateMean(values)
calculateMean(argument) ==
    IF ~argument.isArray \/ Len(argument.items) = 0 THEN <<0, 1>>
    ELSE LET validValues == SelectSeq(argument.items, IsNumeric)
         IN  IF Len(validValues) = 0 THEN <<0, 1>>
             ELSE Frac(SeqSum(validValues), Len(validValues))

\* calculateMedian without the sort of line 137.
calculateMedianUnsorted(argument) ==
    IF ~argument.isArray \/ Len(argument.items) = 0 THEN <<0, 1>>
    ELSE LET validValues == SelectSeq(argument.items, IsNumeric)
             mid == Len(validValues) \div 2
         IN  IF Len(validValues) = 0 THEN <<0, 1>>
             ELSE IF Len(validValues) % 2 = 0
             THEN Frac(validValues[mid] + validValues[mid + 1], 2)
             ELSE Frac(validValues[mid + 1], 1)

\* calculateMedian(values); mid is the 0-based index of the code.
calculateMedian(argument) ==
    IF ~argument.isArray \/ Len(argument.items) = 0 THEN <<0, 1>>
    ELSE LET validValues == SortSeq(SelectSeq(argument.items, IsNumeric),
                                    LAMBDA a, b : a < b)
             mid == Len(validValues) \div 2
         IN  IF Len(validValues) = 0 THEN <<0, 1>>
             ELSE IF Len(validValues) % 2 = 0
             THEN Frac(validValues[mid] + validValues[mid + 1], 2)
             ELSE Frac(validValues[mid + 1], 1)

(***************************************************************************)
(* modules/analyzer: runAnalysis                                           *)
(***************************************************************************)
PairSeparator == "::"

\* `${category}::${metric}`
PairKey(category, metric) == category \o PairSeparator \o metric

\* The first two elements of pair.split('::').
SplitPair(pair) ==
    LET i1   == IndexOf(pair, PairSeparator)
        rest == SliceFrom(pair, i1 + Len(PairSeparator))
        i2   == IndexOf(rest, PairSeparator)
    IN  [category |-> SubSeq(pair, 1, i1 - 1),
         metric   |-> IF i2 = 0 THEN rest ELSE SubSeq(rest, 1, i2 - 1)]

\* The keys the two nested for-in loops add for one file map.
PairKeysOf(data) ==
    {PairKey(c, m) : <<c, m>> \in
        UNION {{<<c2, m2>> : m2 \in DOMAIN data[c2]} : c2 \in DOMAIN data}}

\* commonPairs after the loop of lines 38-59.
CommonPairs(list) ==
    {k \in PairKeysOf(list[1].data) :
        \A i \in 2..Len(list) : k \in PairKeysOf(list[i].data)}

\* fileData['data'][category] && fileData['data'][category][metric]
HasReading(data, category, metric) ==
    /\ category \in DOMAIN data
    /\ metric \in DOMAIN data[category]

\* The files that pass the test of line 71, in input order.
RECURSIVE FilesWith(_, _, _)
FilesWith(list, category, metric) ==
    IF list = << >> THEN << >>
    ELSE LET rest == FilesWith(Tail(list), category, metric)
         IN  IF HasReading(Head(list).data, category, metric)
             THEN <<Head(list)>> \o rest
             ELSE rest

\* SeriesOf with delta and percentChange computed whenever there are two or
\* more files (the test of line 91 written as >= 2).
SeriesOfFromTwoFiles(list, category, metric) ==
    LET have   == FilesWith(list, category, metric)
        values == [i \in 1..Len(have) |-> have[i].data[category][metric].value]
        flags  == [i \in 1..Len(have) |-> have[i].data[category][metric].isFlagged]
    IN  [values |-> values,
         flags  |-> flags,
         delta  |-> IF Len(list) >= 2 /\ Len(values) >= 2
                    THEN <<values[2] - values[1]>> ELSE Null,
         stdDev |-> IF Len(list) >= 2 THEN calculateStdDev(values) ELSE Null,
         percentChange |->
                    IF Len(list) >= 2 /\ Len(values) >= 2
                    THEN calculatePercentChange(values[1], values[2]) ELSE Null]

\* SeriesOf with the second file taken as the baseline.
SeriesOfBaselineSwapped(list, category, metric) ==
    LET have   == FilesWith(list, category, metric)
        values == [i \in 1..Len(have) |-> have[i].data[category][metric].value]
        flags  == [i \in 1..Len(have) |-> have[i].data[category][metric].isFlagged]
    IN  [values |-> values,
         flags  |-> flags,
         delta  |-> IF Len(list) = 2 /\ Len(values) = 2
                    THEN <<values[1] - values[2]>> ELSE Null,
         stdDev |-> IF Len(list) >= 2 THEN calculateStdDev(values) ELSE Null,
         percentChange |->
                    IF Len(list) = 2 /\ Len(values) = 2
                    THEN calculatePercentChange(values[2], values[1]) ELSE Null]

\* SeriesOf with the size of the change as delta.
SeriesOfAbsoluteDelta(list, category, metric) ==
    LET have   == FilesWith(list, category, metric)
        values == [i \in 1..Len(have) |-> have[i].data[category][metric].value]
        flags  == [i \in 1..Len(have) |-> have[i].data[category][metric].isFlagged]
    IN  [values |-> values,
         flags  |-> flags,
         delta  |-> IF Len(list) = 2 /\ Len(values) = 2
                    THEN <<Abs(values[2] - values[1])>> ELSE Null,
         stdDev |-> IF Len(list) >= 2 THEN calculateStdDev(values) ELSE Null,
         percentChange |->
                    IF Len(list) = 2 /\ Len(values) = 2
                    THEN calculatePercentChange(values[1], values[2]) ELSE Null]

\* The series of lines 66-112 for one pair, built from the files that hold it.
SeriesOf(list, category, metric) ==
    LET have   == FilesWith(list, category, metric)
        values == [i \in 1..Len(have) |-> have[i].data[category][metric].value]
        flags  == [i \in 1..Len(have) |-> have[i].data[category][metric].isFlagged]
    IN  [values |-> values,
         flags  |-> flags,
         delta  |-> IF Len(list) = 2 /\ Len(values) = 2
                    THEN <<values[2] - values[1]>> ELSE Null,
         stdDev |-> IF Len(list) >= 2 THEN calculateStdDev(values) ELSE Null,
         percentChange |->
                    IF Len(list) = 2 /\ Len(values) = 2
                    THEN calculatePercentChange(values[1], values[2]) ELSE Null]

\* StoredPairs without the test of line 82.
StoredPairsUnchecked(list) == {SplitPair(k) : k \in CommonPairs(list)}

\* The pairs that get a series: split from a common key, found in every file.
StoredPairs(list) ==
    {p \in {SplitPair(k) : k \in CommonPairs(list)} :
        Len(FilesWith(list, p.category, p.metric)) = Len(list)}

\* runAnalysis(fileDataList) for an array of file maps.
runAnalysis(list) ==
    IF Len(list) = 0 THEN EmptyMap
    ELSE LET stored == StoredPairs(list)
         IN  [c \in {p.category : p \in stored} |->
                [m \in {p.metric : p \in {q \in stored : q.category = c}} |->
                    SeriesOf(list, c, m)]]

(***************************************************************************)
(* domain/models and services/analysisService                              *)
(***************************************************************************)
\* MetricData with its last two parameters in the order of the analyzer's
\* object literal (stdDev before percentChange).
MetricDataLiteralOrder(values, flags, delta, percentChange, stdDev) ==
    [values |-> values, flags |-> flags, delta |-> delta,
     percentChange |-> stdDev, stdDev |-> percentChange]

\* new MetricData(values, flags, delta, percentChange, stdDev)
MetricData(values, flags, delta, percentChange, stdDev) ==
    [values |-> values, flags |-> flags, delta |-> delta,
     percentChange |-> percentChange, stdDev |-> stdDev]

\* new AnalysisResult(category, metrics)
AnalysisResult(category, metrics) == [category |-> category, metrics |-> metrics]

\* AnalysisResults with the two counts taken in the other order.
AnalysisResultsCountsSwapped(res, fileCount, totalMetrics) ==
    [results |-> res, fileCount |-> totalMetrics, totalMetrics |-> fileCount]

\* new AnalysisResults(results, fileCount, totalMetrics); createdAt is the
\* wall clock and is left out.
AnalysisResults(res, fileCount, totalMetrics) ==
    [results |-> res, fileCount |-> fileCount, totalMetrics |-> totalMetrics]

\* new ParsedFile(name, data, sizeBytes); kind tells a ParsedFile ("file")
\* from what a caller may pass in its place.
ParsedFile(name, data) == [kind |-> "file", name |-> name, data |-> data]

\* AnalysisService._convertParsedFileToDict
ConvertParsedFileToDict(parsedFile) ==
    [c \in DOMAIN parsedFile.data |->
        [m \in DOMAIN parsedFile.data[c] |->
            [value     |-> parsedFile.data[c][m].value,
             isFlagged |-> parsedFile.data[c][m].isFlagged]]]

\* parsedFiles.map(pf => ({name, data: _convertParsedFileToDict(pf)}))
ToFileDataList(items) ==
    [i \in 1..Len(items) |->
        [name |-> items[i].name, data |-> ConvertParsedFileToDict(items[i])]]

\* The elements of an array that are no ParsedFile and make the conversion
\* throw a TypeError: null, an object without data, a data map holding null
\* for a category, a category holding null for a metric.
InvalidKinds == {"null", "noData", "nullCategory", "nullReading"}

\* The TypeError message of the runtime for each of them.
TypeErrorMessage(kind) ==
    CASE kind = "null"         -> "Cannot read properties of null (reading 'name')"
      [] kind = "noData"       -> "Cannot convert undefined or null to object"
      [] kind = "nullCategory" -> "Cannot convert undefined or null to object"
      [] kind = "nullReading"  -> "Cannot read properties of null (reading 'value')"

\* The loops of lines 45-60: rawResults turned into domain models.
ToDomainModels(rawResults) ==
    [c \in DOMAIN rawResults |->
        AnalysisResult(c,
            [m \in DOMAIN rawResults[c] |->
                MetricData(rawResults[c][m].values,
                           rawResults[c][m].flags,
                           rawResults[c][m].delta,
                           rawResults[c][m].percentChange,
                           rawResults[c][m].stdDev)])]

\* totalMetrics++ once per metric of rawResults.
CountMetrics(rawResults) ==
    Cardinality(UNION {{<<c, m>> : m \in DOMAIN rawResults[c]} : c \in DOMAIN rawResults})

\* A catch clause that rethrows what it caught.
WrapErrorRethrown(error) == error

\* What the catch clause of analyzeFiles makes of an error.
WrapError(error) ==
    [kind |-> "throw", error |-> "AnalysisError",
     message |-> "Analysis failed: " \o error.message]

\* A try block that leaves out the elements it cannot convert.
AnalyzeArraySkippingInvalid(items) ==
    LET valid      == SelectSeq(items, LAMBDA e : e.kind \notin InvalidKinds)
        rawResults == runAnalysis(ToFileDataList(valid))
    IN  [kind |-> "return",
         value |-> AnalysisResults(ToDomainModels(rawResults),
                                   Len(valid), CountMetrics(rawResults))]

\* The body of the try block for an array argument: a return value or the
\* first error thrown.
AnalyzeArray(items) ==
    IF Len(items) = 0
    THEN [kind |-> "return", value |-> AnalysisResults(EmptyMap, 0, 0)]
    ELSE IF \E i \in 1..Len(items) : items[i].kind \in InvalidKinds
    THEN LET i == CHOOSE k \in 1..Len(items) :
                    /\ items[k].kind \in InvalidKinds
                    /\ \A j \in 1..(k - 1) : items[j].kind \notin InvalidKinds
         IN  [kind |-> "throw", error |-> "TypeError",
              message |-> TypeErrorMessage(items[i].kind)]
    ELSE LET rawResults == runAnalysis(ToFileDataList(items))
         IN  [kind |-> "return",
              value |-> AnalysisResults(ToDomainModels(rawResults),
                                        Len(items), CountMetrics(rawResults))]

\* AnalysisService.analyzeFiles(argument)
analyzeFiles(argument) ==
    IF ~argument.isArray
    THEN [kind |-> "return", value |-> AnalysisResults(EmptyMap, 0, 0)]
    ELSE LET r == AnalyzeArray(argument.items)
         IN  IF r.kind = "throw" THEN WrapError(r) ELSE r

(***************************************************************************)
(* services/parsingService: parseFile, as handleAnalysis uses it           *)
(***************************************************************************)
\* new MetricValue(value, isFlagged)
MetricValue(value, isFlagged) == [value |-> value, isFlagged |-> isFlagged]

\* ParsingService.parseFile: the own entries of rawData as domain models.
ParseFile(fileName, rawData) ==
    ParsedFile(fileName,
        [c \in DOMAIN rawData |->
            [m \in DOMAIN rawData[c] |->
                MetricValue(rawData[c][m].value, rawData[c][m].isFlagged)]])

FileName(n) == "report" \o ToString(n) \o ".txt"

(***************************************************************************)
(* Callers of the analyzer.                                                *)
(***************************************************************************)
NoCall == [fn |-> "none", isArray |-> TRUE, items |-> << >>]

NoOutcome == [kind |-> "none"]

\* File maps a caller passes: every subset of three pairs, one of which has
\* "::" in its category name; the readings of one file follow a profile and
\* differ from pair to pair.
PoolPairs == {<<"A", "B">>, <<"A", "m">>, <<"A::B", "m">>}

PairRank(p) ==
    CASE p = <<"A", "B">> -> 0 [] p = <<"A", "m">> -> 1 [] p = <<"A::B", "m">> -> 2

Profiles == {[base |-> 0, flag |-> FALSE], [base |-> 100 * Scale, flag |-> TRUE]}

PoolReading(p, profile) ==
    [value     |-> profile.base + 50 * Scale * PairRank(p),
     isFlagged |-> IF PairRank(p) = 1 THEN ~profile.flag ELSE profile.flag]

PoolData(pairs, profile) ==
    [c \in {p[1] : p \in pairs} |->
        [m \in {p[2] : p \in {q \in pairs : q[1] = c}} |->
            PoolReading(<<c, m>>, profile)]]

AllAreFiles(items) == \A i \in 1..Len(items) : items[i].kind = "file"

\* The caller adds a file to the list it is going to pass.
AddFile ==
    /\ pc = "idle"
    /\ Len(parsedFiles) < MaxFiles
    /\ \E pairs \in SUBSET PoolPairs, profile \in Profiles :
          parsedFiles' = Append(parsedFiles,
              ParsedFile(FileName(Len(parsedFiles) + 1), PoolData(pairs, profile)))
    /\ call' = NoCall
    /\ results' = EmptyMap
    /\ outcome' = NoOutcome
    /\ UNCHANGED parserVars
    /\ UNCHANGED appVars

\* The caller adds something that is no ParsedFile.
AddInvalid ==
    /\ pc = "idle"
    /\ Len(parsedFiles) < MaxFiles
    /\ \E k \in InvalidKinds :
          parsedFiles' = Append(parsedFiles, [kind |-> k, name |-> "", data |-> EmptyMap])
    /\ call' = NoCall
    /\ results' = EmptyMap
    /\ outcome' = NoOutcome
    /\ UNCHANGED parserVars
    /\ UNCHANGED appVars

\* The caller takes the last file off the list again.
RemoveFile ==
    /\ pc = "idle"
    /\ Len(parsedFiles) > 0
    /\ parsedFiles' = SubSeq(parsedFiles, 1, Len(parsedFiles) - 1)
    /\ call' = NoCall
    /\ results' = EmptyMap
    /\ outcome' = NoOutcome
    /\ UNCHANGED parserVars
    /\ UNCHANGED appVars

\* runAnalysis(fileDataList) on the list of file maps.
CallRunAnalysis ==
    /\ pc = "idle"
    /\ call.fn = "none"
    /\ AllAreFiles(parsedFiles)
    /\ call' = [fn |-> "runAnalysis", isArray |-> TRUE,
                items |-> ToFileDataList(parsedFiles)]
    /\ results' = runAnalysis(ToFileDataList(parsedFiles))
    /\ UNCHANGED <<parserVars, parsedFiles, outcome>>
    /\ UNCHANGED appVars

\* runAnalysis(x) for an x that is no array.
CallRunAnalysisNoArray ==
    /\ pc = "idle"
    /\ call.fn = "none"
    /\ call' = [fn |-> "runAnalysis", isArray |-> FALSE, items |-> << >>]
    /\ results' = EmptyMap
    /\ UNCHANGED <<parserVars, parsedFiles, outcome>>
    /\ UNCHANGED appVars

\* AnalysisService.analyzeFiles(parsedFiles)
CallAnalyzeFiles ==
    /\ pc = "idle"
    /\ call.fn = "none"
    /\ call' = [fn |-> "analyzeFiles", isArray |-> TRUE, items |-> parsedFiles]
    /\ outcome' = analyzeFiles([isArray |-> TRUE, items |-> parsedFiles])
    /\ UNCHANGED <<parserVars, parsedFiles, results>>
    /\ UNCHANGED appVars

\* AnalysisService.analyzeFiles(x) for an x that is no array.
CallAnalyzeFilesNoArray ==
    /\ pc = "idle"
    /\ call.fn = "none"
    /\ call' = [fn |-> "analyzeFiles", isArray |-> FALSE, items |-> << >>]
    /\ outcome' = analyzeFiles([isArray |-> FALSE, items |-> << >>])
    /\ UNCHANGED <<parserVars, parsedFiles, results>>
    /\ UNCHANGED appVars

\* handleAnalysis, lines 229-235: the text just parsed becomes a ParsedFile
\* and joins parsedFiles; two texts are compared.
PushParsedFile ==
    /\ pc = "returned"
    /\ Len(parsedFiles) < 2
    /\ parsedFiles' = Append(parsedFiles,
                             ParseFile(FileName(Len(parsedFiles) + 1), dataMap))
    /\ pc' = "idle"
    /\ consumed' = 0
    /\ line' = ""
    /\ text' = << >>
    /\ currentCategory' = DefaultCategory
    /\ dataMap' = EmptyMap
    /\ call' = NoCall
    /\ results' = EmptyMap
    /\ outcome' = NoOutcome
    /\ UNCHANGED shared
    /\ UNCHANGED appVars

\* handleAnalysis, line 229: the next of the two texts is parsed.
ParseNextFile ==
    /\ Len(parsedFiles) < 2
    /\ ParseCall

\* Lines of the texts that are parsed and then compared.
PipelineLines ==
    {"Saccades:", "Gain: 0.85", "Gain: 1.5 | FLAG", "Latency (ms): 123.4 | FLAG",
     "A::B:"}

\* Values a caller passes to the statistics helpers: null, undefined, NaN
\* and the numbers 0, 1, 2, 3, 5, 100, 150 and -2.
JsValues ==
    <<Null, Undefined, NaN, 0, 1 * Scale, 2 * Scale, 3 * Scale, 5 * Scale,
      100 * Scale, 150 * Scale, (0 - 2) * Scale>>

\* calculatePercentChange(baseline, newValue)
CallPercentChange ==
    /\ pc = "idle"
    /\ call.fn = "none"
    /\ \E i \in 1..Len(JsValues), j \in 1..Len(JsValues) :
          /\ call' = [fn |-> "calculatePercentChange", isArray |-> FALSE,
                      items |-> <<JsValues[i], JsValues[j]>>]
          /\ results' = calculatePercentChange(JsValues[i], JsValues[j])
    /\ UNCHANGED <<parserVars, parsedFiles, outcome>>
    /\ UNCHANGED appVars

\* calculateStdDev(values)
CallStdDev ==
    /\ pc = "idle"
    /\ call.fn = "none"
    /\ \E n \in 0..MaxValues :
          \E f \in [1..n -> 1..Len(JsValues)] :
              LET values == [k \in 1..n |-> JsValues[f[k]]]
              IN  /\ call' = [fn |-> "calculateStdDev", isArray |-> TRUE,
                              items |-> values]
                  /\ results' = calculateStdDev(values)
    /\ UNCHANGED <<parserVars, parsedFiles, outcome>>
    /\ UNCHANGED appVars

\* An argument a caller passes to a helper that takes an array: anything
\* that is no array, or the array of the values of JsValues that f picks.
StatsArgument(isArray, n, f) ==
    [isArray |-> isArray, items |-> [k \in 1..n |-> JsValues[f[k]]]]

\* calculateLinearRegression(yValues)
CallLinearRegression ==
    /\ pc = "idle"
    /\ call.fn = "none"
    /\ \E isArray \in BOOLEAN, n \in 0..MaxValues :
          \E f \in [1..n -> 1..Len(JsValues)] :
              LET argument == StatsArgument(isArray, n, f)
              IN  /\ isArray \/ n = 0
                  /\ call' = [fn |-> "calculateLinearRegression",
                              isArray |-> argument.isArray, items |-> argument.items]
                  /\ results' = calculateLinearRegression(argument)
    /\ UNCHANGED <<parserVars, parsedFiles, outcome>>
    /\ UNCHANGED appVars

\* calculateMean(values)
CallMean ==
    /\ pc = "idle"
    /\ call.fn = "none"
    /\ \E isArray \in BOOLEAN, n \in 0..MaxValues :
          \E f \in [1..n -> 1..Len(JsValues)] :
              LET argument == StatsArgument(isArray, n, f)
              IN  /\ isArray \/ n = 0
                  /\ call' = [fn |-> "calculateMean",
                              isArray |-> argument.isArray, items |-> argument.items]
                  /\ results' = calculateMean(argument)
    /\ UNCHANGED <<parserVars, parsedFiles, outcome>>
    /\ UNCHANGED appVars

\* calculateMedian(values)
CallMedian ==
    /\ pc = "idle"
    /\ call.fn = "none"
    /\ \E isArray \in BOOLEAN, n \in 0..MaxValues :
          \E f \in [1..n -> 1..Len(JsValues)] :
              LET argument == StatsArgument(isArray, n, f)
              IN  /\ isArray \/ n = 0
                  /\ call' = [fn |-> "calculateMedian",
                              isArray |-> argument.isArray, items |-> argument.items]
                  /\ results' = calculateMedian(argument)
    /\ UNCHANGED <<parserVars, parsedFiles, outcome>>
    /\ UNCHANGED appVars

(***************************************************************************)
(* config/constants and services/fileService                               *)
(***************************************************************************)
ALLOWED_FILE_TYPES == <<".txt">>

MAX_FILE_SIZE_MB == 10

BytesPerMB == 1024 * 1024

UpperCaseLetters == "ABCDEFGHIJKLMNOPQRSTUVWXYZ"

LowerCaseLetters == "abcdefghijklmnopqrstuvwxyz"

\* String.prototype.toLowerCase
RECURSIVE ToLowerCase(_)
ToLowerCase(s) ==
    IF Len(s) = 0 THEN ""
    ELSE LET c == Ch(s, 1)
             i == IndexOf(UpperCaseLetters, c)
         IN  (IF i > 0 THEN Ch(LowerCaseLetters, i) ELSE c) \o ToLowerCase(SliceFrom(s, 2))

TypeNotAllowed == "File type not allowed"

SizeExceeded == "File size exceeds maximum allowed size"

\* validateFile comparing the extension as it is written.
validateFileCaseSensitive(fileName, fileSize) ==
    IF ~\E k \in 1..Len(ALLOWED_FILE_TYPES) : EndsWith(fileName, ALLOWED_FILE_TYPES[k])
    THEN [kind |-> "throw", error |-> "ValidationError", message |-> TypeNotAllowed]
    ELSE IF fileSize > MAX_FILE_SIZE_MB * BytesPerMB
    THEN [kind |-> "throw", error |-> "ValidationError", message |-> SizeExceeded]
    ELSE [kind |-> "return"]

\* FileService.validateFile(fileName, fileSize): it returns or throws.
validateFile(fileName, fileSize) ==
    IF ~\E k \in 1..Len(ALLOWED_FILE_TYPES) :
            EndsWith(ToLowerCase(fileName), ALLOWED_FILE_TYPES[k])
    THEN [kind |-> "throw", error |-> "ValidationError", message |-> TypeNotAllowed]
    \* sizeMB > MAX_FILE_SIZE_MB with sizeMB = fileSize / (1024 * 1024)
    ELSE IF fileSize > MAX_FILE_SIZE_MB * BytesPerMB
    THEN [kind |-> "throw", error |-> "ValidationError", message |-> SizeExceeded]
    ELSE [kind |-> "return"]

Validates(file) == validateFile(file.name, file.size).kind = "return"

(***************************************************************************)
(* app.js: session persistence                                             *)
(***************************************************************************)
\* null as the value of analysisResults and of a sessionStorage item.
NoValue == [kind |-> "null"]

\* JSON.parse(JSON.stringify(v)) for a number or null: NaN becomes null.
JsonNumber(v) == IF IsNaNValue(v) \/ IsNullish(v) THEN Null ELSE v

\* convertParsedFilesToDict(parsedFiles)
convertParsedFilesToDict(files) ==
    [i \in 1..Len(files) |->
        [name |-> files[i].name,
         data |-> [c \in DOMAIN files[i].data |->
                    [m \in DOMAIN files[i].data[c] |->
                        [value     |-> files[i].data[c][m].value,
                         isFlagged |-> files[i].data[c][m].isFlagged]]]]]

\* convertAnalysisResultsToDict(analysisResults)
convertAnalysisResultsToDict(value) ==
    [c \in DOMAIN value.results |->
        [m \in DOMAIN value.results[c].metrics |->
            [values        |-> value.results[c].metrics[m].values,
             flags         |-> value.results[c].metrics[m].flags,
             delta         |-> value.results[c].metrics[m].delta,
             percentChange |-> value.results[c].metrics[m].percentChange,
             stdDev        |-> value.results[c].metrics[m].stdDev]]]

\* JSON.parse(JSON.stringify(fileDataList))
JsonFileDataList(list) ==
    [i \in 1..Len(list) |->
        [name |-> list[i].name,
         data |-> [c \in DOMAIN list[i].data |->
                    [m \in DOMAIN list[i].data[c] |->
                        [value     |-> JsonNumber(list[i].data[c][m].value),
                         isFlagged |-> list[i].data[c][m].isFlagged]]]]]

\* JSON.parse(JSON.stringify(analysisResultsDict))
JsonAnalysisResults(dict) ==
    [c \in DOMAIN dict |->
        [m \in DOMAIN dict[c] |->
            [values        |-> [i \in 1..Len(dict[c][m].values) |->
                                   JsonNumber(dict[c][m].values[i])],
             flags         |-> dict[c][m].flags,
             delta         |-> dict[c][m].delta,
             percentChange |-> IF IsNaNValue(dict[c][m].percentChange) THEN Null
                               ELSE dict[c][m].percentChange,
             stdDev        |-> dict[c][m].stdDev]]]

\* A call F(argument) whose argument is evaluated before the call is made.
Call(F(_), argument) == CHOOSE r \in {F(x) : x \in {argument}} : TRUE

\* sessionStorage after saveSessionData.
SavedSession(files, value) ==
    [fileDataList    |-> [kind |-> "json",
                          value |-> Call(JsonFileDataList, convertParsedFilesToDict(files))],
     analysisResults |-> [kind |-> "json",
                          value |-> Call(JsonAnalysisResults,
                                        convertAnalysisResultsToDict(value))]]

\* parsedFiles as loadSessionData rebuilds it: parseFile(item.name, '', 0)
\* with its data replaced by item.data.
RestoredFiles(list) ==
    [i \in 1..Len(list) |-> [ParseFile(list[i].name, EmptyMap) EXCEPT !.data = list[i].data]]

\* displaySummaryCards reads analysisResults.fileCount.toString() and
\* analysisResults.totalMetrics.toString(): a TypeError when a property is
\* undefined.
DisplaySummaryCardsThrows(ar) ==
    /\ ar.kind # "null"
    /\ \/ "fileCount" \notin DOMAIN ar.value
       \/ "totalMetrics" \notin DOMAIN ar.value

(***************************************************************************)
(* app.js: the page, its handlers and its globals                          *)
(***************************************************************************)
MaxInvocations == 2

MaxSelected == 2

\* A File of the file input: its name, its size in bytes, whether the
\* FileReader reads it, and the lines of its text.
UploadFile(name, size, readable, lines) ==
    [name |-> name, size |-> size, readable |-> readable, lines |-> lines]

\* Files a user can select: two reports, the second one upper-cased and of
\* exactly the largest size; a PDF; a report the reader fails on; a report
\* the parser throws on; a report one byte too large; a PDF too large.
UploadPool ==
    <<UploadFile("a.txt", 1, TRUE, <<"Saccades:", "Gain: 0.85">>),
      UploadFile("B.TXT", MAX_FILE_SIZE_MB * BytesPerMB, TRUE,
                 <<"Saccades:", "Gain: 1.5 | FLAG", "Latency (ms): 123.4">>),
      UploadFile("c.pdf", 1, TRUE, <<"Gain: 1">>),
      UploadFile("e.txt", 1, FALSE, << >>),
      UploadFile("p.txt", 1, TRUE, <<"__proto__:", "__proto__: 1">>),
      UploadFile("d.txt", MAX_FILE_SIZE_MB * BytesPerMB + 1, TRUE, <<"Gain: 1">>),
      UploadFile("F.PDF", MAX_FILE_SIZE_MB * BytesPerMB + 1, TRUE, <<"Gain: 1">>)>>

\* parseVngText on the text of each file of the pool. None of these texts
\* writes to an object outside the call (the shared part stays empty), so
\* the call ends the same way whenever it is made.
PoolParse == [i \in 1..Len(UploadPool) |-> ParseText(UploadPool[i].lines, EmptyMap)]

\* parseVngText(fileContent) for a file of the pool.
ParsedText(file) == PoolParse[CHOOSE i \in 1..Len(UploadPool) : UploadPool[i] = file]

\* The files of the pool that are selected together with others.
SelectedTogether == 4

\* event.target.files: no file, any one file of the pool, or up to
\* MaxSelected different ones of its first files, in any order.
Selections ==
    UNION {{[i \in 1..n |-> UploadPool[f[i]]] :
              f \in {g \in [1..n -> 1..Len(UploadPool)] :
                       /\ \A i, j \in 1..n : i # j => g[i] # g[j]
                       /\ n > 1 => \A i \in 1..n : g[i] <= SelectedTogether}} :
           n \in 0..MaxSelected}

\* What the application's handlers leave alone.
pageFrame == <<pc, consumed, line, text, currentCategory, dataMap, call, results, outcome>>

\* analyzeBtn.disabled is "true" or "false" once updateAnalyzeButton has set
\* it, and before that what the page's markup says ("markup").
\* showError(message), line 767, and showSuccess(message), line 780.
\* A showError that shows nothing.
showErrorNothing(shown) == shown

showError(shown) == Append(shown, "error")

showSuccess(shown) == Append(shown, "success")

\* handleFileSelection(event), with files the event's files.
handleFileSelection(files) ==
    /\ Len(invocations) < MaxInvocations
    /\ files # uploadedFiles
    /\ uploadedFiles' = files
    \* updateAnalyzeButton()
    /\ analyzeDisabled' = IF \E i \in 1..Len(files) : Validates(files[i])
                          THEN "false" ELSE "true"
    /\ UNCHANGED <<parsedFiles, shared, analysisResults, loading, resultsShown,
                   messages, invocations, session, startup>>
    /\ UNCHANGED pageFrame

\* The for...of loop of handleAnalysis entering the file at index i: the
\* validation throws, or the invocation suspends on the read, or the loop is
\* over.
EnterFile(inv, i) ==
    IF i > Len(inv.files)
    THEN [inv EXCEPT !.pc = "analyze", !.index = i]
    ELSE IF Validates(inv.files[i])
    THEN [inv EXCEPT !.pc = "await", !.index = i]
    ELSE [inv EXCEPT !.pc = "done", !.index = i, !.end = "failure"]

\* handleAnalysis() up to its first await: a click on the analyze button,
\* which no disabled button receives.
handleAnalysis ==
    /\ analyzeDisabled # "true"
    /\ Len(uploadedFiles) # 0
    /\ Len(invocations) < MaxInvocations
    /\ LET inv == EnterFile([pc |-> "start", files |-> uploadedFiles,
                             index |-> 0, end |-> "pending"], 1)
       IN  /\ invocations' = Append(invocations, inv)
           /\ parsedFiles' = << >>
           /\ loading' = (inv.pc = "await")
           /\ messages' = IF inv.pc = "await" THEN messages ELSE showError(messages)
    /\ UNCHANGED <<uploadedFiles, shared, analysisResults, analyzeDisabled,
                   resultsShown, session, startup>>
    /\ UNCHANGED pageFrame

\* The ParsedFiles handleAnalysis can push: those of the files of the pool
\* that validate, are read and are parsed.
PushedFiles ==
    {ParseFile(UploadPool[i].name, PoolParse[i].dataMap) :
        i \in {j \in 1..Len(UploadPool) :
                  /\ Validates(UploadPool[j])
                  /\ UploadPool[j].readable
                  /\ PoolParse[j].pc # "threw"}}

\* The lists parsedFiles can hold when an invocation reaches line 249: every
\* invocation pushes at most one ParsedFile per file of its selection.
PushedLists ==
    UNION {[1..n -> PushedFiles] : n \in 1..(MaxInvocations * MaxSelected)}

\* Each of these lists with what AnalysisService.analyzeFiles makes of it.
AnalyzedLists ==
    {<<list, analyzeFiles([isArray |-> TRUE, items |-> list])>> : list \in PushedLists}

\* AnalysisService.analyzeFiles(parsedFiles), line 249.
AnalyzeParsedFiles(list) == (CHOOSE p \in AnalyzedLists : p[1] = list)[2]

\* The step of invocation inv after its read has settled, with the globals
\* it finds: the lists and objects it leaves behind and how it goes on.
AfterRead(inv, list, sh) ==
    LET file == inv.files[inv.index]
        st   == ParsedText(file)
        fail == [inv EXCEPT !.pc = "done", !.end = "failure"]
    IN  IF ~file.readable
        THEN [inv |-> fail, parsedFiles |-> list, shared |-> sh, value |-> NoValue]
        ELSE IF st.pc = "threw"
        THEN [inv |-> fail, parsedFiles |-> list, shared |-> sh, value |-> NoValue]
        ELSE LET pushed == Append(list, ParseFile(file.name, st.dataMap))
                 next   == EnterFile(inv, inv.index + 1)
                 r      == AnalyzeParsedFiles(pushed)
             IN  IF next.pc # "analyze"
                 THEN [inv |-> next, parsedFiles |-> pushed, shared |-> sh,
                       value |-> NoValue]
                 ELSE IF Len(pushed) = 0 \/ r.kind = "throw"
                 THEN [inv |-> [next EXCEPT !.pc = "done", !.end = "failure"],
                       parsedFiles |-> pushed, shared |-> sh, value |-> NoValue]
                 ELSE [inv |-> [next EXCEPT !.pc = "done", !.end = "success"],
                       parsedFiles |-> pushed, shared |-> sh,
                       value |-> [kind |-> "model", value |-> r.value]]

\* handleAnalysis() resumed: the read of invocation k settles, and the
\* invocation runs to its next await or to its end.
handleAnalysisResumed(k) ==
    /\ invocations[k].pc = "await"
    /\ UNCHANGED <<uploadedFiles, analyzeDisabled, startup>>
    /\ UNCHANGED pageFrame
    /\ \E after \in {AfterRead(invocations[k], parsedFiles, shared)} :
           /\ invocations' = [invocations EXCEPT ![k] = after.inv]
           /\ parsedFiles' = after.parsedFiles
           /\ shared' = after.shared
           /\ IF after.inv.end = "success"
              THEN /\ analysisResults' = after.value
                   /\ session' = SavedSession(after.parsedFiles, after.value.value)
                   /\ resultsShown' = TRUE
                   /\ messages' = showSuccess(messages)
                   /\ loading' = FALSE
              ELSE IF after.inv.end = "failure"
              THEN /\ messages' = showError(messages)
                   /\ loading' = FALSE
                   /\ UNCHANGED <<analysisResults, session, resultsShown>>
              ELSE UNCHANGED <<analysisResults, session, resultsShown, messages, loading>>

\* The page is loaded again in its tab: the globals start over, suspended
\* invocations are gone, sessionStorage stays, and initializeApp runs
\* loadSessionData.
initializeApp ==
    /\ startup = "fresh"
    /\ uploadedFiles' = << >>
    /\ analyzeDisabled' = "markup"
    /\ invocations' = [k \in 1..Len(invocations) |-> [invocations[k] EXCEPT !.pc = "gone"]]
    /\ messages' = << >>
    /\ loading' = FALSE
    /\ shared' = EmptyMap
    /\ UNCHANGED session
    /\ IF session.fileDataList.kind # "null" /\ session.analysisResults.kind # "null"
       THEN /\ parsedFiles' = RestoredFiles(session.fileDataList.value)
            /\ analysisResults' = [kind |-> "dict", value |-> session.analysisResults.value]
            /\ resultsShown' = TRUE
            /\ startup' = IF DisplaySummaryCardsThrows(analysisResults')
                          THEN "failed" ELSE "restored"
       ELSE /\ parsedFiles' = << >>
            /\ analysisResults' = NoValue
            /\ resultsShown' = FALSE
            /\ startup' = "empty"
    /\ UNCHANGED pageFrame

(***************************************************************************)
(* Specifications.                                                         *)
(***************************************************************************)
Init ==
    /\ pc = "idle"
    /\ consumed = 0
    /\ line = ""
    /\ text = << >>
    /\ currentCategory = DefaultCategory
    /\ dataMap = EmptyMap
    /\ shared = EmptyMap
    /\ parsedFiles = << >>
    /\ call = NoCall
    /\ results = EmptyMap
    /\ outcome = NoOutcome
    /\ uploadedFiles = << >>
    /\ analysisResults = NoValue
    /\ analyzeDisabled = "markup"
    /\ loading = FALSE
    /\ resultsShown = FALSE
    /\ messages = << >>
    /\ invocations = << >>
    /\ session = [fileDataList |-> NoValue, analysisResults |-> NoValue]
    /\ startup = "fresh"

\* The analyzer and its service, called on lists a caller builds.
Next ==
    \/ AddFile
    \/ AddInvalid
    \/ RemoveFile
    \/ CallRunAnalysis
    \/ CallRunAnalysisNoArray
    \/ CallAnalyzeFiles
    \/ CallAnalyzeFilesNoArray

Spec == Init /\ [][Next]_vars

\* The parser, called again and again on texts of up to MaxLines lines.
ParserNext ==
    \/ ParseCall
    \/ ParseCallNoText
    \/ \E l \in ParseLines : ParseLine(l)
    \/ ParseReturn

ParserSpec == Init /\ [][ParserNext]_vars

\* Two texts are parsed, the ParsedFiles analyzed.
PipelineNext ==
    \/ ParseNextFile
    \/ \E l \in PipelineLines : ParseLine(l)
    \/ ParseReturn
    \/ PushParsedFile
    \/ CallAnalyzeFiles

PipelineSpec == Init /\ [][PipelineNext]_vars

\* The statistics helpers, called on values a caller chooses.
StatsNext ==
    \/ CallPercentChange
    \/ CallStdDev
    \/ CallLinearRegression
    \/ CallMean
    \/ CallMedian

StatsSpec == Init /\ [][StatsNext]_vars

\* The parser, called again and again in one page.
ReentryNext ==
    \/ ParseCall
    \/ \E l \in ReentryLines : ParseLine(l)
    \/ ParseReturn
    \/ ParseCallAgain

ReentrySpec == Init /\ [][ReentryNext]_vars

\* The page: selections, clicks on the analyze button, reads that settle,
\* and one reload.
AppNext ==
    \/ \E files \in Selections : handleFileSelection(files)
    \/ handleAnalysis
    \/ \E k \in 1..Len(invocations) : handleAnalysisResumed(k)
    \/ initializeApp

AppSpec == Init /\ [][AppNext]_vars

\* Selections whose analysis ends in each way: one report, two reports, a
\* report the reader fails on, one the parser throws on, and a report
\* followed by a PDF.
FewSelections ==
    {[i \in 1..Len(ix) |-> UploadPool[ix[i]]] :
        ix \in {<<1>>, <<1, 2>>, <<4>>, <<5>>, <<1, 3>>}}

FairNext ==
    \/ \E files \in FewSelections : handleFileSelection(files)
    \/ handleAnalysis
    \/ \E k \in 1..Len(invocations) : handleAnalysisResumed(k)
    \/ initializeApp

\* The page with these selections. A FileReader started by readFileContent
\* fires onload or onerror, so a suspended invocation is resumed.
AppFairSpec ==
    /\ Init
    /\ [][FairNext]_vars
    /\ WF_vars(\E k \in 1..Len(invocations) : handleAnalysisResumed(k))

(***************************************************************************)
(* Properties of the analyzer.                                             *)
(***************************************************************************)
\* The (category, metric) pairs of a nested map.
PairsOf(map) == UNION {{<<c, m>> : m \in DOMAIN map[c]} : c \in DOMAIN map}

\* The pairs every file of the list holds.
PairsInAllFiles(items) ==
    {p \in PairsOf(items[1].data) : \A i \in 2..Len(items) : p \in PairsOf(items[i].data)}

RanAnalysis == call.fn = "runAnalysis" /\ call.isArray /\ Len(call.items) > 0

\* C1: for a non-empty list of file maps the (category, metric) pairs of the
\* output of runAnalysis are exactly the pairs present in every file.
C1_OutputIsIntersection ==
    RanAnalysis => PairsOf(results) = PairsInAllFiles(call.items)

C3_StatisticsByFileCount ==
    RanAnalysis =>
        \A p \in PairsOf(results) :
            LET series == results[p[1]][p[2]]
                n == Len(call.items)
            IN  /\ n # 2 => series.delta = Null /\ series.percentChange = Null
                /\ n = 1 => series.stdDev = Null
                /\ n >= 2 => series.stdDev # Null

\* Three files with differing values were analyzed: a series has a standard
\* deviation other than 0 and no delta.
C3_Witness ==
    /\ RanAnalysis
    /\ Len(call.items) = 3
    /\ \E p \in PairsOf(results) :
          /\ results[p[1]][p[2]].values[1] # results[p[1]][p[2]].values[3]
          /\ results[p[1]][p[2]].stdDev \notin {Null, <<0, 1>>}
          /\ results[p[1]][p[2]].delta = Null

Analyzed == call.fn = "analyzeFiles"

Returned == Analyzed /\ outcome.kind = "return"

Threw == Analyzed /\ outcome.kind = "throw"

\* The series of a returned AnalysisResults, as (category, metric) pairs.
SeriesPairs(value) ==
    UNION {{<<c, m>> : m \in DOMAIN value.results[c].metrics} : c \in DOMAIN value.results}

\* C4: when two parsed texts are analyzed, every series holds the two files'
\* values in input order, delta = values[1] - values[0] and percentChange =
\* percentChange(values[0], values[1]).
C4_TwoFilesDelta ==
    (Returned /\ Len(call.items) = 2) =>
        \A p \in SeriesPairs(outcome.value) :
            LET series == outcome.value.results[p[1]].metrics[p[2]]
                first  == call.items[1].data[p[1]][p[2]].value
                second == call.items[2].data[p[1]][p[2]].value
            IN  /\ series.values = <<first, second>>
                /\ series.delta = <<second - first>>
                /\ series.percentChange = calculatePercentChange(first, second)

\* Two texts with the same categories and metrics and different values were
\* parsed and analyzed; a series has a delta other than 0.
C4_Witness ==
    /\ Returned
    /\ Len(call.items) = 2
    /\ PairsOf(call.items[1].data) = PairsOf(call.items[2].data)
    /\ \E p \in SeriesPairs(outcome.value) :
          LET series == outcome.value.results[p[1]].metrics[p[2]]
          IN  /\ series.values[1] > 0
              /\ series.values[2] > series.values[1]
              /\ series.delta = <<series.values[2] - series.values[1]>>

\* The files of a list have no (category, metric) pair in common.
NoCommonPair(items) == Len(items) = 0 \/ PairsInAllFiles(items) = {}

\* C5: an empty list and a list of files with no common pair are no errors:
\* runAnalysis returns an empty map, analyzeFiles returns an AnalysisResults
\* with no category and totalMetrics = 0 (fileCount = 0 for the empty list).
C5_EmptyAndDisjointInputs ==
    /\ (call.fn = "runAnalysis" /\ NoCommonPair(call.items)) => results = EmptyMap
    /\ (Analyzed /\ call.isArray /\ AllAreFiles(call.items) /\ NoCommonPair(call.items)) =>
          /\ outcome.kind = "return"
          /\ outcome.value.results = EmptyMap
          /\ outcome.value.totalMetrics = 0
          /\ Len(call.items) = 0 => outcome.value.fileCount = 0

\* analyzeFiles was called on two files that hold pairs, none in common.
C5_Witness ==
    /\ Returned
    /\ Len(call.items) = 2
    /\ AllAreFiles(call.items)
    /\ PairsOf(call.items[1].data) # {}
    /\ PairsOf(call.items[2].data) # {}
    /\ PairsInAllFiles(call.items) = {}
    /\ outcome.value.totalMetrics = 0

\* C6: for a list of parsed files analyzeFiles returns an AnalysisResults
\* whose totalMetrics is the number of its series, whose fileCount is the
\* number of files and whose series are those of runAnalysis, by category,
\* with the same values, flags, delta, percentChange and stdDev.
C6_ServiceMirrorsAnalyzer ==
    (Analyzed /\ call.isArray /\ AllAreFiles(call.items)) =>
        LET raw == runAnalysis(ToFileDataList(call.items))
            got == outcome.value
        IN  /\ outcome.kind = "return"
            /\ got.fileCount = Len(call.items)
            /\ got.totalMetrics = Cardinality(SeriesPairs(got))
            /\ SeriesPairs(got) = PairsOf(raw)
            /\ DOMAIN got.results = DOMAIN raw
            /\ \A p \in PairsOf(raw) :
                  LET mine   == got.results[p[1]].metrics[p[2]]
                      theirs == raw[p[1]][p[2]]
                  IN  /\ got.results[p[1]].category = p[1]
                      /\ mine.values = theirs.values
                      /\ mine.flags = theirs.flags
                      /\ mine.delta = theirs.delta
                      /\ mine.percentChange = theirs.percentChange
                      /\ mine.stdDev = theirs.stdDev

\* analyzeFiles returned two series for two files, one with a percent change
\* that differs from its standard deviation.
C6_Witness ==
    /\ Returned
    /\ Len(call.items) = 2
    /\ outcome.value.totalMetrics = 2
    /\ \E p \in SeriesPairs(outcome.value) :
          LET series == outcome.value.results[p[1]].metrics[p[2]]
          IN  /\ series.percentChange # Null
              /\ series.percentChange # series.stdDev

\* An AnalysisResults is complete: it counts the files of the argument and
\* its own series, and every series has one value and one flag per file.
Complete(value, argument) ==
    /\ value.fileCount = (IF argument.isArray THEN Len(argument.items) ELSE 0)
    /\ value.totalMetrics = Cardinality(SeriesPairs(value))
    /\ \A p \in SeriesPairs(value) :
          /\ Len(value.results[p[1]].metrics[p[2]].values) = value.fileCount
          /\ Len(value.results[p[1]].metrics[p[2]].flags) = value.fileCount

AnalysisFailedPrefix == "Analysis failed: "

\* C7: analyzeFiles either returns a complete AnalysisResults or throws one
\* AnalysisError whose message is 'Analysis failed: ' and the cause.
C7_AllOrNothing ==
    Analyzed =>
        \/ outcome.kind = "return" /\ Complete(outcome.value, call)
        \/ /\ outcome.kind = "throw"
           /\ outcome.error = "AnalysisError"
           /\ StartsWithAt(outcome.message, 1, AnalysisFailedPrefix)
           /\ Len(outcome.message) > Len(AnalysisFailedPrefix)

\* analyzeFiles threw on a list whose first element is a file and whose
\* second is not.
C7_Witness ==
    /\ Threw
    /\ Len(call.items) >= 2
    /\ call.items[1].kind = "file"
    /\ PairsOf(call.items[1].data) # {}
    /\ call.items[2].kind \in InvalidKinds

HasInvalidElement(argument) ==
    /\ argument.isArray
    /\ \E i \in 1..Len(argument.items) : argument.items[i].kind \in InvalidKinds

\* C8 as stated: an argument that is no list, or a list with an element
\* that is no file report, makes analyzeFiles fail with a wrapped error.
C8_InvalidArgumentFails ==
    (Analyzed /\ (~call.isArray \/ HasInvalidElement(call))) =>
        /\ outcome.kind = "throw"
        /\ outcome.error = "AnalysisError"
        /\ StartsWithAt(outcome.message, 1, AnalysisFailedPrefix)

\* C8 as amended: a list with an element that is null or lacks its data, a
\* category map or a reading makes analyzeFiles throw one AnalysisError
\* 'Analysis failed: ...'; an argument that is no list is no error and
\* yields an empty AnalysisResults with fileCount 0 and totalMetrics 0.
C8_InvalidElementFails ==
    /\ (Analyzed /\ HasInvalidElement(call)) =>
          /\ outcome.kind = "throw"
          /\ outcome.error = "AnalysisError"
          /\ StartsWithAt(outcome.message, 1, AnalysisFailedPrefix)
    /\ (Analyzed /\ ~call.isArray) =>
          /\ outcome.kind = "return"
          /\ outcome.value = AnalysisResults(EmptyMap, 0, 0)

\* analyzeFiles threw on a list that ends with an element that is no file,
\* after two files with a common pair.
C8_Witness ==
    /\ Threw
    /\ Len(call.items) = 3
    /\ AllAreFiles(SubSeq(call.items, 1, 2))
    /\ PairsInAllFiles(SubSeq(call.items, 1, 2)) # {}
    /\ call.items[3].kind \in InvalidKinds

(***************************************************************************)
(* Properties of the parser.                                               *)
(***************************************************************************)
\* The loop takes its next line.
ParseStep == pc = "loop" /\ consumed' = consumed + 1

\* C9: every reading of a value line is stored under the category of the
\* most recent header recognized before it, "General" when there is none;
\* the current category changes only when a header is recognized.
C9_ReadingsUnderCurrentCategory ==
    [][ParseStep =>
          LET trimmedLine == Trim(line')
              kind == LineKind(trimmedLine)
          IN  /\ consumed = 0 => currentCategory = DefaultCategory
              /\ kind = "header" => currentCategory' = HeaderCategory(trimmedLine)
              /\ kind # "header" => currentCategory' = currentCategory
              /\ kind = "value" =>
                    /\ <<currentCategory, MetricNameOf(trimmedLine)>> \in PairsOf(dataMap')
                    /\ dataMap'[currentCategory][MetricNameOf(trimmedLine)]
                          = ReadingOf(trimmedLine)]_vars

\* The latest line of the loop was recognized as a category header.
AfterHeader ==
    /\ pc \in {"loop", "returned"}
    /\ consumed > 0
    /\ LineKind(Trim(line)) = "header"

\* C10: after a header line the current category is the trimmed line without
\* its trailing ':', trimmed, without a trailing " //", trimmed; the text
\* 'VISUOMOTOR //:', 'Gain: 0.85' yields {VISUOMOTOR: {Gain: {0.85, false}}}.
C10_HeaderNamesCategory ==
    /\ AfterHeader =>
          LET trimmed  == Trim(line)
              noColon  == Trim(SubSeq(trimmed, 1, Len(trimmed) - 1))
              noSuffix == IF EndsWith(noColon, " //")
                          THEN Trim(SubSeq(noColon, 1, Len(noColon) - 3))
                          ELSE noColon
          IN  currentCategory = noSuffix
    /\ (AfterHeader /\ line = "VISUOMOTOR //:") => currentCategory = "VISUOMOTOR"
    /\ (consumed = 2 /\ line = "Gain: 0.85" /\ currentCategory = "VISUOMOTOR") =>
          /\ DOMAIN dataMap = {"VISUOMOTOR"}
          /\ DOMAIN dataMap["VISUOMOTOR"] = {"Gain"}
          /\ dataMap["VISUOMOTOR"]["Gain"] = [value |-> 85, isFlagged |-> FALSE]

\* The text 'VISUOMOTOR //:', 'Gain: 0.85' has been parsed.
C10_Witness ==
    /\ pc = "returned"
    /\ consumed = 2
    /\ line = "Gain: 0.85"
    /\ currentCategory = "VISUOMOTOR"
    /\ "VISUOMOTOR" \in DOMAIN dataMap

\* The findings-summary header as the report writes it.
SummaryLine == "Summary of Flagged Findings:"

\* A trimmed line that ends with ':' and is no value line.
ColonLine(trimmedLine) ==
    /\ trimmedLine # ""
    /\ EndsWith(trimmedLine, ":")
    /\ ~RegexTest(trimmedLine)

\* C11 as stated: the line 'Summary of Flagged Findings:' leaves the current
\* category and the map as they are, and every other line that ends with ':'
\* and is no value line makes the text before its ':' the current category.
C11_OnlyLiteralSummarySkipped ==
    [][ParseStep =>
          LET trimmedLine == Trim(line')
          IN  /\ trimmedLine = SummaryLine =>
                    /\ currentCategory' = currentCategory
                    /\ dataMap' = dataMap
              /\ (ColonLine(trimmedLine) /\ trimmedLine # SummaryLine) =>
                    currentCategory' = HeaderCategory(trimmedLine)]_vars

\* C11 as amended: a line that ends with ':', is no value line and holds the
\* text 'Summary of Flagged Findings' anywhere changes neither the current
\* category nor the map nor anything else the parser writes; every other line
\* that ends with ':' and is no value line starts the category it names.
C11_SummaryHeaderSkipped ==
    [][ParseStep =>
          LET trimmedLine == Trim(line')
          IN  /\ (ColonLine(trimmedLine) /\ Includes(trimmedLine, SummaryHeader)) =>
                    /\ currentCategory' = currentCategory
                    /\ dataMap' = dataMap
                    /\ shared' = shared
                    /\ pc' = pc
              /\ (ColonLine(trimmedLine) /\ ~Includes(trimmedLine, SummaryHeader)) =>
                    currentCategory' = HeaderCategory(trimmedLine)]_vars

\* A header, then a header that holds the findings-summary text, then a value
\* line have been parsed; the reading is under the first header's category.
C11_Witness ==
    /\ pc = "loop"
    /\ text = <<"Saccades:", "Old Summary of Flagged Findings:", "Gain: 0.85">>
    /\ currentCategory = "Saccades"
    /\ dataMap = [c \in {"Saccades"} |->
                    [m \in {"Gain"} |-> [value |-> 85, isFlagged |-> FALSE]]]

\* The trimmed line has the shape of a value line and its number parses.
ValueLine(trimmedLine) ==
    /\ RegexTest(trimmedLine)
    /\ ~ParseFloatIsNaN(RegexExec(trimmedLine).num)

\* The entries of map after that map before does not hold with that value.
Written(before, after) ==
    {p \in PairsOf(after) :
        \/ p \notin PairsOf(before)
        \/ after[p[1]][p[2]] # before[p[1]][p[2]]}

\* The text before the first ':' of the line, trimmed, without one trailing
\* parenthesized suffix and the whitespace before it.
NameBeforeColon(trimmedLine) ==
    LET before == Trim(SubSeq(trimmedLine, 1, IndexOf(trimmedLine, ":") - 1))
        opens  == {k \in 1..(Len(before) - 2) :
                      /\ Ch(before, k) = "("
                      /\ \A j \in (k + 1)..(Len(before) - 1) : Ch(before, j) # ")"}
    IN  IF EndsWith(before, ")") /\ opens # {}
        THEN TrimEnd(SubSeq(before, 1, (CHOOSE k \in opens : \A j \in opens : k <= j) - 1))
        ELSE before

\* C12: the metric name a value line is stored under is the text before the
\* first ':' of the trimmed line, trimmed, without one trailing parenthesized
\* suffix: a value line writes no entry under another name, and writes that
\* entry whenever the current category is an own entry and the name is not
\* the prototype accessor; 'Latency (ms): 123.4 | FLAG' under Saccades is
\* stored as metric 'Latency'.
C12_MetricNameBeforeColon ==
    /\ [][(ParseStep /\ ValueLine(Trim(line'))) =>
            LET name == NameBeforeColon(Trim(line'))
            IN  /\ Written(dataMap, dataMap') \subseteq {<<currentCategory, name>>}
                /\ \A k \in DOMAIN shared' :
                      (k \notin DOMAIN shared \/ shared'[k] # shared[k]) => k[Len(k)] = name
                /\ (currentCategory \in DOMAIN dataMap' /\ name # ProtoAccessor) =>
                      <<currentCategory, name>> \in PairsOf(dataMap')]_vars
    /\ [](text = <<"Saccades:", "Latency (ms): 123.4 | FLAG">> =>
            dataMap = [c \in {"Saccades"} |->
                        [m \in {"Latency"} |-> [value |-> 12340, isFlagged |-> TRUE]]])

\* 'Latency (ms): 123.4 | FLAG' has been parsed under the category Saccades.
C12_Witness ==
    /\ pc = "returned"
    /\ text = <<"Saccades:", "Latency (ms): 123.4 | FLAG">>
    /\ <<"Saccades", "Latency">> \in PairsOf(dataMap)

\* C13: the reading a value line stores has isFlagged true if and only if the
\* trimmed line ends with the marker '| FLAG'.
C13_FlagIffMarkerAtEnd ==
    [][(ParseStep /\ ValueLine(Trim(line'))) =>
          LET trimmedLine == Trim(line')
              marked == EndsWith(trimmedLine, "| FLAG")
              pair   == <<currentCategory, NameBeforeColon(trimmedLine)>>
          IN  /\ pair \in PairsOf(dataMap') =>
                    dataMap'[pair[1]][pair[2]].isFlagged = marked
              /\ \A p \in Written(dataMap, dataMap') :
                    dataMap'[p[1]][p[2]].isFlagged = marked
              /\ \A k \in DOMAIN shared' :
                    (k \notin DOMAIN shared \/ shared'[k] # shared[k]) =>
                        shared'[k].isFlagged = marked]_vars

\* A line that ends with the marker and a line that holds the marker in its
\* metric name have been parsed: the first is flagged, the second is not.
C13_Witness ==
    /\ pc = "returned"
    /\ text = <<"Gain: 1.5 | FLAG", "N | FLAG: 5">>
    /\ dataMap["General"]["Gain"].isFlagged
    /\ ~dataMap["General"]["N | FLAG"].isFlagged

\* The category in force after the lines: the one named by the last line
\* that starts a category, "General" when there is none.
RECURSIVE CategoryAfter(_)
CategoryAfter(lines) ==
    IF lines = << >> THEN "General"
    ELSE LET trimmedLine == Trim(lines[Len(lines)])
         IN  IF ColonLine(trimmedLine) /\ ~Includes(trimmedLine, SummaryHeader)
             THEN HeaderCategory(trimmedLine)
             ELSE CategoryAfter(SubSeq(lines, 1, Len(lines) - 1))

\* The positions of the value lines of the text that produce the pair p.
LinesProducing(lines, p) ==
    {i \in 1..Len(lines) :
        /\ ValueLine(Trim(lines[i]))
        /\ CategoryAfter(SubSeq(lines, 1, i - 1)) = p[1]
        /\ NameBeforeColon(Trim(lines[i])) = p[2]}

Parsing == pc \in {"loop", "returned"}

\* C14: after any sequence of lines the map holds one reading per (category,
\* metric) pair, the reading of the last value line of the text that produced
\* the pair.
C14_LastWriteWins ==
    Parsing =>
        \A p \in PairsOf(dataMap) :
            LET at == LinesProducing(text, p)
            IN  /\ at # {}
                /\ dataMap[p[1]][p[2]] =
                      ReadingOf(Trim(text[CHOOSE i \in at : \A j \in at : j <= i]))

\* Three value lines for the same pair have been parsed, the last one with
\* the reading of the first; the map holds that reading.
C14_Witness ==
    /\ pc = "returned"
    /\ text = <<"Gain: 1.5 | FLAG", "Gain: 0.85", "Gain: 1.5 | FLAG">>
    /\ dataMap = [c \in {"General"} |->
                    [m \in {"Gain"} |-> [value |-> 150, isFlagged |-> TRUE]]]

\* The token writes a number: an optional '-', then digits with at most one
\* '.', at least one digit.
WritesNumber(tok) ==
    LET body == IF Len(tok) > 0 /\ Ch(tok, 1) = "-" THEN SliceFrom(tok, 2) ELSE tok
    IN  /\ \A i \in 1..Len(body) : Ch(body, i) \in DigitChars \cup {"."}
        /\ Cardinality({i \in 1..Len(body) : Ch(body, i) = "."}) <= 1
        /\ \E i \in 1..Len(body) : Ch(body, i) \in DigitChars

\* C15: a line of value-line shape whose numeric token does not write a
\* number stores nothing, creates no category entry and leaves the current
\* category alone; the value a value line stores is the number its token
\* writes.
C15_MalformedNumberSkipped ==
    [][(ParseStep /\ RegexTest(Trim(line'))) =>
          LET tok == RegexExec(Trim(line')).num
          IN  /\ ~WritesNumber(tok) =>
                    /\ dataMap' = dataMap
                    /\ shared' = shared
                    /\ currentCategory' = currentCategory
              /\ WritesNumber(tok) =>
                    \A p \in Written(dataMap, dataMap') :
                        dataMap'[p[1]][p[2]].value = ParseFloat(tok)]_vars

\* C16: parseVngText never throws; called with no text it returns an empty
\* map; a line that is neither a value line nor a header changes nothing:
\* the category is the one of the last header, every entry comes from a
\* value line.
C16_NeverThrows ==
    /\ pc # "threw"
    /\ (pc = "returned" /\ text = << >>) => dataMap = EmptyMap
    /\ Parsing =>
          /\ currentCategory = CategoryAfter(text)
          /\ \A p \in PairsOf(dataMap) : LinesProducing(text, p) # {}

\* C17: parseVngText writes nothing outside the map it returns, and the
\* reading of every value line of the text is an own entry of that map.
C17_NoSideEffects ==
    /\ shared = EmptyMap
    /\ Parsing =>
          \A i \in 1..Len(text) :
              ValueLine(Trim(text[i])) =>
                  <<CategoryAfter(SubSeq(text, 1, i - 1)), NameBeforeColon(Trim(text[i]))>>
                      \in PairsOf(dataMap)

\* C18: a non-empty trimmed line is handled as a value line, as a header or
\* not at all, and the value pattern wins: a line that matches it never
\* changes the current category, a line that does not match it stores
\* nothing, and a line that is neither changes nothing.
C18_ValuePatternWins ==
    [][(ParseStep /\ Trim(line') # "") =>
          LET trimmedLine == Trim(line')
              stored == dataMap' # dataMap \/ shared' # shared
              moved  == currentCategory' # currentCategory
          IN  /\ RegexTest(trimmedLine) => ~moved
              /\ ~RegexTest(trimmedLine) => ~stored
              /\ ~(stored /\ moved)
              /\ (~ValueLine(trimmedLine) /\ ~ColonLine(trimmedLine)) =>
                    ~stored /\ ~moved]_vars

\* A value line with a second ':' has been parsed after a header: it is
\* stored under the header's category, which is still the current one.
C18_Witness ==
    /\ pc = "loop"
    /\ text = <<"Saccades:", "T: 1: 2">>
    /\ currentCategory = "Saccades"
    /\ <<"Saccades", "T">> \in PairsOf(dataMap)

(***************************************************************************)
(* Properties of the statistics helpers.                                   *)
(***************************************************************************)
\* The value v is the number k (counted in units of 1/Scale).
IsNumber(v, k) == IsNumeric(v) /\ v = k

CalledPercentChange == call.fn = "calculatePercentChange"

\* C19: calculatePercentChange(baseline, newValue) is null if an argument is
\* null or undefined; for baseline 0 it is 0 if newValue is 0 and null
\* otherwise; in every other case it is (newValue - baseline) / baseline * 100
\* (NaN when an argument is NaN); so (0, 0) gives 0, (0, 5) null and
\* (100, 150) gives 50.
C19_PercentChange ==
    CalledPercentChange =>
        LET baseline == call.items[1]
            newValue == call.items[2]
        IN  /\ (IsNullish(baseline) \/ IsNullish(newValue)) => results = Null
            /\ (IsNumber(baseline, 0) /\ ~IsNullish(newValue)) =>
                  results = (IF IsNumber(newValue, 0) THEN <<0, 1>> ELSE Null)
            /\ (IsNumeric(baseline) /\ ~IsNumber(baseline, 0) /\ IsNumeric(newValue)) =>
                  /\ Len(results) = 2
                  /\ results[2] > 0
                  /\ results[1] * baseline = (newValue - baseline) * 100 * results[2]
            /\ (IsNumeric(baseline) /\ ~IsNumber(baseline, 0) /\ IsNaNValue(newValue)) =>
                  results = NaN
            /\ (IsNaNValue(baseline) /\ ~IsNullish(newValue)) => results = NaN
            /\ (IsNumber(baseline, 0) /\ IsNumber(newValue, 5 * Scale)) => results = Null
            /\ (IsNumber(baseline, 100 * Scale) /\ IsNumber(newValue, 150 * Scale)) =>
                  results = <<50, 1>>

\* calculatePercentChange(100, 150) has returned 50.
C19_Witness ==
    /\ CalledPercentChange
    /\ IsNumber(call.items[1], 100 * Scale)
    /\ IsNumber(call.items[2], 150 * Scale)
    /\ results = <<50, 1>>

CalledStdDev == call.fn = "calculateStdDev"

\* C20: calculateStdDev(values) is 0 when fewer than two entries are numeric;
\* otherwise its square is the sample variance of the numeric entries, the
\* sum of their squared deviations from their mean divided by n - 1, which
\* is (n * sum of squares - square of the sum) / (n * (n - 1)); it is 0 for
\* [5] and [2, 2] and 1 for [1, 2, 3].
C20_SampleStdDev ==
    CalledStdDev =>
        LET numeric == SelectSeq(call.items, IsNumeric)
            n       == Len(numeric)
            sum     == SeqSum(numeric)
            squares == SeqSum([i \in 1..n |-> numeric[i] * numeric[i]])
            top     == n * squares - sum * sum
            bottom  == n * (n - 1) * Scale * Scale
        IN  /\ n < 2 => results = <<0, 1>>
            /\ (n >= 2 /\ Len(results) = 2) =>
                  /\ results[1] >= 0 /\ results[2] > 0
                  /\ results[1] * results[1] * bottom = top * results[2] * results[2]
            /\ (n >= 2 /\ Len(results) = 3) =>
                  /\ results[3] > 0
                  /\ results[2] * bottom = top * results[3]
            /\ (n = 2 /\ IsNumber(numeric[1], 2 * Scale) /\ IsNumber(numeric[2], 2 * Scale)) =>
                  results = <<0, 1>>
            /\ (Len(call.items) = 3 /\ n = 3 /\ IsNumber(numeric[1], 1 * Scale)
                  /\ IsNumber(numeric[2], 2 * Scale) /\ IsNumber(numeric[3], 3 * Scale)) =>
                  results = <<1, 1>>

\* calculateStdDev has been called on three entries, one of them not numeric
\* and the other two different numbers, and has returned a root other than 0.
C20_Witness ==
    /\ CalledStdDev
    /\ Len(call.items) = 3
    /\ ~IsNumeric(call.items[2])
    /\ IsNumber(call.items[1], 1 * Scale)
    /\ IsNumber(call.items[3], 3 * Scale)
    /\ results = <<"sqrt", 2, 1>>

RECURSIVE SeqProduct(_)
SeqProduct(xs) == IF xs = << >> THEN 1 ELSE Head(xs) * SeqProduct(Tail(xs))

CalledLinearRegression == call.fn = "calculateLinearRegression"

\* C21: calculateLinearRegression returns an empty sequence for fewer than
\* two points, one null per point when fewer than two points are numeric,
\* and otherwise one fitted value per index 0..n-1, all on one line, the
\* least-squares line of the numeric points: the residuals of the numeric
\* points sum to 0 and are orthogonal to their indexes.
C21_LinearRegression ==
    CalledLinearRegression =>
        LET n     == Len(call.items)
            valid == {i \in 1..n : IsNumeric(call.items[i])}
        IN  /\ (~call.isArray \/ n < 2) => results = << >>
            /\ (n >= 2 /\ Cardinality(valid) < 2) =>
                  /\ Len(results) = n
                  /\ \A i \in 1..n : results[i] = Null
            /\ (n >= 2 /\ Cardinality(valid) >= 2) =>
                  /\ Len(results) = n
                  /\ \A i \in 1..n : Len(results[i]) = 2 /\ results[i][2] > 0
                  /\ LET common == SeqProduct([i \in 1..n |-> results[i][2]])
                         \* the fitted values and the residuals, times common
                         fit == [i \in 1..n |-> results[i][1] * (common \div results[i][2])]
                         res == [i \in 1..n |->
                                    IF i \in valid THEN call.items[i] * common - fit[i]
                                    ELSE 0]
                     IN  /\ \A i \in 1..(n - 2) :
                               fit[i + 2] - fit[i + 1] = fit[i + 1] - fit[i]
                         /\ SeqSum(res) = 0
                         /\ SeqSum([i \in 1..n |-> (i - 1) * res[i]]) = 0

\* calculateLinearRegression([1, null, 3]) has returned [1, 2, 3].
C21_Witness ==
    /\ CalledLinearRegression
    /\ Len(call.items) = 3
    /\ IsNumber(call.items[1], 1 * Scale)
    /\ IsNullish(call.items[2])
    /\ IsNumber(call.items[3], 3 * Scale)
    /\ results = <<<<1 * Scale, 1>>, <<2 * Scale, 1>>, <<3 * Scale, 1>>>>

\* The r-th smallest of the numbers vals (r = 1 for the smallest).
OrderStat(vals, r) ==
    CHOOSE x \in {vals[i] : i \in 1..Len(vals)} :
        /\ Cardinality({i \in 1..Len(vals) : vals[i] < x}) < r
        /\ r <= Cardinality({i \in 1..Len(vals) : vals[i] <= x})

CalledMean == call.fn = "calculateMean"

CalledMedian == call.fn = "calculateMedian"

\* C22: calculateMean and calculateMedian return 0 when no entry is numeric
\* or the argument is no array; otherwise the mean is the sum of the numeric
\* entries divided by their count, and the median is the middle numeric
\* entry in ascending order, or half the sum of the two middle ones when
\* their count is even.
C22_MeanAndMedian ==
    /\ CalledMean =>
          LET valid == SelectSeq(call.items, IsNumeric)
          IN  /\ (~call.isArray \/ Len(valid) = 0) => results = <<0, 1>>
              /\ Len(valid) > 0 =>
                    /\ results[2] > 0
                    /\ results[1] * Len(valid) = SeqSum(valid) * results[2]
    /\ CalledMedian =>
          LET valid == SelectSeq(call.items, IsNumeric)
              n     == Len(valid)
          IN  /\ (~call.isArray \/ n = 0) => results = <<0, 1>>
              /\ (n > 0 /\ n % 2 = 1) =>
                    /\ results[2] > 0
                    /\ results[1] = OrderStat(valid, (n + 1) \div 2) * results[2]
              /\ (n > 0 /\ n % 2 = 0) =>
                    /\ results[2] > 0
                    /\ 2 * results[1] =
                          (OrderStat(valid, n \div 2) + OrderStat(valid, n \div 2 + 1))
                              * results[2]

\* calculateMedian([5, 1, 3]) has returned 3.
C22_Witness ==
    /\ CalledMedian
    /\ Len(call.items) = 3
    /\ IsNumber(call.items[1], 5 * Scale)
    /\ IsNumber(call.items[2], 1 * Scale)
    /\ IsNumber(call.items[3], 3 * Scale)
    /\ results = <<3 * Scale, 1>>

(***************************************************************************)
(* Relations between calls of the analyzer.                                *)
(***************************************************************************)
\* The permutations of 1..n.
PermutationsOf(n) == {f \in [1..n -> 1..n] : \A i, j \in 1..n : f[i] = f[j] => i = j}

\* C29: for every permutation of the file list runAnalysis returns the same
\* (category, metric) pairs, and the values and flags of each series are
\* those of the original list permuted like the files; with two files,
\* swapping them negates delta and leaves stdDev as it is.
C29_OrderCovariant ==
    RanAnalysis =>
        \A f \in PermutationsOf(Len(call.items)) :
            LET n        == Len(call.items)
                permuted == [i \in 1..n |-> call.items[f[i]]]
                other    == runAnalysis(permuted)
            IN  /\ PairsOf(other) = PairsOf(results)
                /\ \A p \in PairsOf(results) :
                      LET mine   == results[p[1]][p[2]]
                          theirs == other[p[1]][p[2]]
                      IN  /\ theirs.values = [i \in 1..n |-> mine.values[f[i]]]
                          /\ theirs.flags = [i \in 1..n |-> mine.flags[f[i]]]
                          /\ (n = 2 /\ f[1] = 2) =>
                                /\ theirs.delta = <<0 - mine.delta[1]>>
                                /\ theirs.stdDev = mine.stdDev

\* Two files with a common pair and different values have been analyzed: a
\* series has a delta other than 0.
C29_Witness ==
    /\ RanAnalysis
    /\ Len(call.items) = 2
    /\ \E p \in PairsOf(results) :
          /\ results[p[1]][p[2]].delta \notin {Null, <<0>>}
          /\ results[p[1]][p[2]].flags[1] # results[p[1]][p[2]].flags[2]

(***************************************************************************)
(* Categories of the parser's and the analyzer's output.                   *)
(***************************************************************************)
\* Every category of the parser's map holds a metric.
ParserCategoriesHoldMetrics ==
    Parsing => \A c \in DOMAIN dataMap : DOMAIN dataMap[c] # {}

\* Every category of the analyzer's output holds a series.
AnalyzerCategoriesHoldSeries ==
    call.fn = "runAnalysis" => \A c \in DOMAIN results : DOMAIN results[c] # {}

\* C30: every category of the map parseVngText builds holds at least one
\* metric (a header alone creates no entry, "General" is there only when a
\* value line came under it), and every category of the output of
\* runAnalysis holds at least one series.
C30_NoEmptyCategory ==
    /\ ParserCategoriesHoldMetrics
    /\ Parsing =>
          \A c \in DOMAIN dataMap :
              \E i \in 1..Len(text) :
                  /\ ValueLine(Trim(text[i]))
                  /\ CategoryAfter(SubSeq(text, 1, i - 1)) = c
    /\ AnalyzerCategoriesHoldSeries

(***************************************************************************)
(* Calls that follow one another.                                          *)
(***************************************************************************)
\* The map a call on the text builds when nothing was called before it.
FirstCallMap(lines) == ParseText(lines, EmptyMap).dataMap

\* C23: the result of parseVngText depends on its argument only: whatever
\* was called before, a call on a text ends as a first call on that text
\* ends, with the same map.
C23_ResultDependsOnArgumentOnly ==
    /\ Parsing => dataMap = FirstCallMap(text)
    /\ pc = "threw" => ParseText(text, EmptyMap).pc = "threw"

(***************************************************************************)
(* The page: validation of the selected files.                             *)
(***************************************************************************)
\* The name ends with ".txt" whatever the case of its letters.
EndsWithTxtAnyCase(name) ==
    LET n == Len(name)
    IN  /\ n >= 4
        /\ Ch(name, n - 3) = "."
        /\ Ch(name, n - 2) \in {"t", "T"}
        /\ Ch(name, n - 1) \in {"x", "X"}
        /\ Ch(name, n) \in {"t", "T"}

LargestSize == 10 * 1024 * 1024

\* The first file of the list that is no report of an allowed size, or 0.
FirstInvalid(files) ==
    IF \A i \in 1..Len(files) :
           EndsWithTxtAnyCase(files[i].name) /\ files[i].size <= LargestSize
    THEN 0
    ELSE CHOOSE i \in 1..Len(files) :
            /\ ~(EndsWithTxtAnyCase(files[i].name) /\ files[i].size <= LargestSize)
            /\ \A j \in 1..(i - 1) :
                   EndsWithTxtAnyCase(files[j].name) /\ files[j].size <= LargestSize

ValidateFileAsStated(file) ==
    LET v == validateFile(file.name, file.size)
    IN  /\ v.kind = "return" <=>
               (EndsWithTxtAnyCase(file.name) /\ file.size <= LargestSize)
        /\ v.kind # "return" =>
               /\ v.kind = "throw"
               /\ v.error = "ValidationError"
               /\ v.message = IF EndsWithTxtAnyCase(file.name)
                              THEN SizeExceeded ELSE TypeNotAllowed

\* C28: validateFile returns iff the name ends with ".txt" in any case and
\* the size is at most 10 * 1024 * 1024 bytes, and throws a ValidationError
\* otherwise, which names the file type when type and size are both wrong;
\* the analyze button is enabled iff a selected file validates; and an
\* invocation of handleAnalysis ends in failure at the first file of its
\* selection that does not validate, without going on to a later file.
C28_ValidationGate ==
    /\ \A i \in 1..Len(uploadedFiles) : ValidateFileAsStated(uploadedFiles[i])
    /\ \A k \in 1..Len(invocations) :
           \A i \in 1..Len(invocations[k].files) :
               ValidateFileAsStated(invocations[k].files[i])
    /\ analyzeDisabled \in {"true", "false"} =>
           (analyzeDisabled = "false" <=>
               \E i \in 1..Len(uploadedFiles) :
                   /\ EndsWithTxtAnyCase(uploadedFiles[i].name)
                   /\ uploadedFiles[i].size <= LargestSize)
    /\ \A k \in 1..Len(invocations) :
           LET inv == invocations[k]
               j   == FirstInvalid(inv.files)
           IN  j # 0 =>
                   /\ inv.end # "success"
                   /\ inv.index <= j
                   /\ inv.index = j => inv.end = "failure"

C28_Witness ==
    /\ Len(uploadedFiles) = 1
    /\ uploadedFiles[1].name = "F.PDF"
    /\ analyzeDisabled = "true"
    /\ \E k \in 1..Len(invocations) :
           /\ Len(invocations[k].files) = 2
           /\ invocations[k].files[1].name = "B.TXT"
           /\ invocations[k].files[2].name = "c.pdf"
           /\ invocations[k].index = 2
           /\ invocations[k].end = "failure"
           /\ Len(parsedFiles) = 1

(***************************************************************************)
(* The page: the results and the list they were computed from.             *)
(***************************************************************************)
\* No invocation of handleAnalysis is suspended.
Quiescent == \A k \in 1..Len(invocations) : invocations[k].pc \in {"done", "gone"}

\* What analyzeFiles makes of the current parsedFiles.
Recomputed ==
    IF parsedFiles \in PushedLists THEN AnalyzeParsedFiles(parsedFiles).value
    ELSE analyzeFiles([isArray |-> TRUE, items |-> parsedFiles]).value

\* C24: whenever analysisResults is not null (and no invocation is in the
\* middle of recomputing it), it is what analyzeFiles computes from the
\* current parsedFiles: its fileCount is the length of parsedFiles and its
\* series are those of these files, one value per file; for results restored
\* from the session the series are compared.
C24_ResultsMatchParsedFiles ==
    Quiescent =>
        /\ analysisResults.kind = "model" =>
               /\ analysisResults.value.fileCount = Len(parsedFiles)
               /\ analysisResults.value = Recomputed
        /\ analysisResults.kind = "dict" =>
               analysisResults.value =
                   Call(JsonAnalysisResults, convertAnalysisResultsToDict(Recomputed))

(***************************************************************************)
(* The page: how an invocation of handleAnalysis ends.                     *)
(***************************************************************************)
\* The step starts invocation k or takes it further.
StepOf(k) ==
    /\ k <= Len(invocations')
    /\ invocations'[k].pc # "gone"
    /\ k <= Len(invocations) => invocations'[k] # invocations[k]

\* The step that starts an invocation which goes on shows the overlay; a
\* step of an invocation that goes on leaves results, session and messages
\* alone; the step that ends it in success replaces analysisResults, saves
\* them with the parsed files, shows the results and a success message and
\* hides the overlay; the step that ends it in failure shows an error
\* message, hides the overlay and leaves results and session alone.
StepAsStated(k) ==
    LET inv == invocations'[k]
    IN  /\ inv.end = "pending" =>
               /\ inv.pc = "await"
               /\ k > Len(invocations) => loading'
               /\ UNCHANGED <<analysisResults, session, resultsShown, messages>>
        /\ inv.end = "success" =>
               /\ inv.pc = "done"
               /\ analysisResults'.kind = "model"
               /\ analysisResults'.value = Recomputed'
               /\ session' = SavedSession(parsedFiles', analysisResults'.value)
               /\ resultsShown'
               /\ messages' = Append(messages, "success")
               /\ ~loading'
        /\ inv.end = "failure" =>
               /\ inv.pc = "done"
               /\ UNCHANGED <<analysisResults, session, resultsShown>>
               /\ messages' = Append(messages, "error")
               /\ ~loading'
        /\ inv.end \in {"pending", "success", "failure"}

Suspended(k) == k <= Len(invocations) /\ invocations[k].pc = "await"

StartsWithSavedSession ==
    /\ startup = "fresh"
    /\ startup' # "fresh"
    /\ session.fileDataList.kind # "null"
    /\ session.analysisResults.kind # "null"

\* The number of series of the saved results.
SavedSeries ==
    Cardinality(UNION {{<<c, m>> : m \in DOMAIN session.analysisResults.value[c]} :
                          c \in DOMAIN session.analysisResults.value})

\* C26: when the page starts with a saved analysis, loadSessionData ends
\* with the overview rendered, parsedFiles holding the saved names and data,
\* and analysisResults holding the saved series together with the fileCount
\* and totalMetrics of the saved analysis.
C26_SessionRoundTrip ==
    [][StartsWithSavedSession =>
          /\ startup' = "restored"
          /\ Len(parsedFiles') = Len(session.fileDataList.value)
          /\ \A i \in 1..Len(parsedFiles') :
                 /\ parsedFiles'[i].name = session.fileDataList.value[i].name
                 /\ parsedFiles'[i].data = session.fileDataList.value[i].data
          /\ analysisResults'.kind # "null"
          /\ "fileCount" \in DOMAIN analysisResults'.value
          /\ "totalMetrics" \in DOMAIN analysisResults'.value
          /\ analysisResults'.value.fileCount = Len(parsedFiles')
          /\ analysisResults'.value.totalMetrics = SavedSeries]_vars

(***************************************************************************)
(* The page: invocations of handleAnalysis that overlap.                   *)
(***************************************************************************)
\* Invocation k reaches the analysis step (line 249) in this step.
ReachesAnalysis(k) ==
    /\ k <= Len(invocations)
    /\ invocations[k].pc = "await"
    /\ invocations'[k].pc = "done"
    /\ invocations'[k].end = "success"

\* One ParsedFile per file of the selection, in upload order.
ParsedFilesOf(files) ==
    [i \in 1..Len(files) |-> ParseFile(files[i].name, ParsedText(files[i]).dataMap)]

\* C27: when an invocation of handleAnalysis reaches the analysis step,
\* whatever was invoked or selected while it was suspended, parsedFiles
\* holds one ParsedFile per file of the selection the invocation started
\* from, in upload order and nothing else, and the fileCount of the stored
\* analysisResults is the number of these files.
C27_OneParsedFilePerSelectedFile ==
    [][\A k \in 1..MaxInvocations :
          ReachesAnalysis(k) =>
              /\ parsedFiles' = ParsedFilesOf(invocations[k].files)
              /\ analysisResults'.value.fileCount = Len(invocations[k].files)]_vars

====
